---- MODULE Spec2Model ----
(***************************************************************************)
(* FutureStrategist: the expert-prediction resilience layer                *)
(* (server/services/openai.ts: cache, in-flight map, circuit breaker, hard *)
(* deadline, fallback synthesis) and the analysis pipeline orchestrator    *)
(* (server/routes.ts: processAnalysis, updatePartialResults, stop route).  *)
(*                                                                         *)
(* Text is a sequence of characters, each character a one-character        *)
(* string; a character outside ASCII is written "uXXXX" (its code point),  *)
(* and a text literal of the source whose inside is never inspected is one *)
(* opaque non-empty atom such as "tmpl01.role".                            *)
(***************************************************************************)
EXTENDS Integers, Sequences, FiniteSets, TLC

\* ------------------------------------------------------------------ text

\* String.prototype.includes
Includes(s, sub) ==
  \E i \in 0..(Len(s) - Len(sub)) : SubSeq(s, i + 1, i + Len(sub)) = sub

UpperCase == <<"A", "B", "C", "D", "E", "F", "G", "H", "I", "J", "K", "L", "M",
               "N", "O", "P", "Q", "R", "S", "T", "U", "V", "W", "X", "Y", "Z">>

LowerCase == <<"a", "b", "c", "d", "e", "f", "g", "h", "i", "j", "k", "l", "m",
               "n", "o", "p", "q", "r", "s", "t", "u", "v", "w", "x", "y", "z">>

\* String.prototype.toLowerCase
toLowerCase(s) ==
  [i \in 1..Len(s) |->
     IF \E k \in 1..Len(UpperCase) : UpperCase[k] = s[i]
     THEN LowerCase[CHOOSE k \in 1..Len(UpperCase) : UpperCase[k] = s[i]]
     ELSE s[i]]

\* the separator class of the split in generateGenericRole: whitespace, the
\* middle dot (u30fb), "-" and "_"
Separators == {" ", "u30fb", "-", "_"}

\* expertName.split(/[\s..\-_]+/).filter(w => w.length > 0): the words
RECURSIVE SplitWords(_)
SplitWords(s) ==
  IF s = <<>> THEN <<>>
  ELSE IF s[1] \in Separators THEN SplitWords(Tail(s))
  ELSE LET stop == IF \E i \in 1..Len(s) : s[i] \in Separators
                   THEN (CHOOSE i \in 1..Len(s) :
                           /\ s[i] \in Separators
                           /\ \A j \in 1..(i - 1) : s[j] \notin Separators) - 1
                   ELSE Len(s)
       IN <<SubSeq(s, 1, stop)>> \o SplitWords(SubSeq(s, stop + 1, Len(s)))

\* String.prototype.trim, for the whitespace the model's alphabet has
RECURSIVE TrimLeft(_)
TrimLeft(s) == IF s # <<>> /\ s[1] = " " THEN TrimLeft(Tail(s)) ELSE s

RECURSIVE TrimRight(_)
TrimRight(s) ==
  IF s # <<>> /\ s[Len(s)] = " " THEN TrimRight(SubSeq(s, 1, Len(s) - 1)) ELSE s

trim(s) == TrimRight(TrimLeft(s))

\* ------------------------------------------------- fallback templates

expertFallbackTemplates ==
  <<
    \* line 74
    [key |-> <<"A", "I", "u7814", "u7a76", "u8005">>,
     value |-> [role |-> <<"tmpl01.role">>, specialization |-> <<"tmpl01.specialization">>,
               expertiseLevel |-> "expert",
               subSpecializations |-> <<<<"tmpl01.sub1">>, <<"tmpl01.sub2">>, <<"tmpl01.sub3">>>>,
               informationSources |-> <<<<"tmpl01.src1">>, <<"tmpl01.src2">>, <<"tmpl01.src3">>>>,
               researchFocus |-> <<"tmpl01.researchFocus">>]],
    \* line 82
    [key |-> <<"A", "I", "u30a8", "u30f3", "u30b8", "u30cb", "u30a2">>,
     value |-> [role |-> <<"tmpl02.role">>, specialization |-> <<"tmpl02.specialization">>,
               expertiseLevel |-> "expert",
               subSpecializations |-> <<<<"tmpl02.sub1">>, <<"tmpl02.sub2">>, <<"tmpl02.sub3">>>>,
               informationSources |-> <<<<"tmpl02.src1">>, <<"tmpl02.src2">>, <<"tmpl02.src3">>>>,
               researchFocus |-> <<"tmpl02.researchFocus">>]],
    \* line 90
    [key |-> <<"u30c7", "u30fc", "u30bf", "u30b5", "u30a4", "u30a8", "u30f3", "u30c6", "u30a3", "u30b9", "u30c8">>,
     value |-> [role |-> <<"tmpl03.role">>, specialization |-> <<"tmpl03.specialization">>,
               expertiseLevel |-> "expert",
               subSpecializations |-> <<<<"tmpl03.sub1">>, <<"tmpl03.sub2">>, <<"tmpl03.sub3">>>>,
               informationSources |-> <<<<"tmpl03.src1">>, <<"tmpl03.src2">>, <<"tmpl03.src3">>>>,
               researchFocus |-> <<"tmpl03.researchFocus">>]],
    \* line 100
    [key |-> <<"u7d4c", "u55b6", "u30b3", "u30f3", "u30b5", "u30eb", "u30bf", "u30f3", "u30c8">>,
     value |-> [role |-> <<"tmpl04.role">>, specialization |-> <<"tmpl04.specialization">>,
               expertiseLevel |-> "senior",
               subSpecializations |-> <<<<"tmpl04.sub1">>, <<"tmpl04.sub2">>, <<"tmpl04.sub3">>>>,
               informationSources |-> <<<<"tmpl04.src1">>, <<"tmpl04.src2">>, <<"tmpl04.src3">>>>,
               researchFocus |-> <<"tmpl04.researchFocus">>]],
    \* line 108
    [key |-> <<"u7d4c", "u6e08", "u5b66", "u8005">>,
     value |-> [role |-> <<"tmpl05.role">>, specialization |-> <<"tmpl05.specialization">>,
               expertiseLevel |-> "expert",
               subSpecializations |-> <<<<"tmpl05.sub1">>, <<"tmpl05.sub2">>, <<"tmpl05.sub3">>>>,
               informationSources |-> <<<<"tmpl05.src1">>, <<"tmpl05.src2">>, <<"tmpl05.src3">>>>,
               researchFocus |-> <<"tmpl05.researchFocus">>]],
    \* line 116
    [key |-> <<"u6295", "u8cc7", "u30a2", "u30ca", "u30ea", "u30b9", "u30c8">>,
     value |-> [role |-> <<"tmpl06.role">>, specialization |-> <<"tmpl06.specialization">>,
               expertiseLevel |-> "expert",
               subSpecializations |-> <<<<"tmpl06.sub1">>, <<"tmpl06.sub2">>, <<"tmpl06.sub3">>>>,
               informationSources |-> <<<<"tmpl06.src1">>, <<"tmpl06.src2">>, <<"tmpl06.src3">>>>,
               researchFocus |-> <<"tmpl06.researchFocus">>]],
    \* line 126
    [key |-> <<"u30c7", "u30b6", "u30a4", "u30ca", "u30fc">>,
     value |-> [role |-> <<"tmpl07.role">>, specialization |-> <<"tmpl07.specialization">>,
               expertiseLevel |-> "expert",
               subSpecializations |-> <<<<"tmpl07.sub1">>, <<"tmpl07.sub2">>, <<"tmpl07.sub3">>>>,
               informationSources |-> <<<<"tmpl07.src1">>, <<"tmpl07.src2">>, <<"tmpl07.src3">>>>,
               researchFocus |-> <<"tmpl07.researchFocus">>]],
    \* line 134
    [key |-> <<"U", "X", "u30c7", "u30b6", "u30a4", "u30ca", "u30fc">>,
     value |-> [role |-> <<"tmpl08.role">>, specialization |-> <<"tmpl08.specialization">>,
               expertiseLevel |-> "expert",
               subSpecializations |-> <<<<"tmpl08.sub1">>, <<"tmpl08.sub2">>, <<"tmpl08.sub3">>>>,
               informationSources |-> <<<<"tmpl08.src1">>, <<"tmpl08.src2">>, <<"tmpl08.src3">>>>,
               researchFocus |-> <<"tmpl08.researchFocus">>]],
    \* line 144
    [key |-> <<"u6280", "u8853", "u8005">>,
     value |-> [role |-> <<"tmpl09.role">>, specialization |-> <<"tmpl09.specialization">>,
               expertiseLevel |-> "expert",
               subSpecializations |-> <<<<"tmpl09.sub1">>, <<"tmpl09.sub2">>, <<"tmpl09.sub3">>>>,
               informationSources |-> <<<<"tmpl09.src1">>, <<"tmpl09.src2">>, <<"tmpl09.src3">>>>,
               researchFocus |-> <<"tmpl09.researchFocus">>]],
    \* line 152
    [key |-> <<"I", "T", "u30b3", "u30f3", "u30b5", "u30eb", "u30bf", "u30f3", "u30c8">>,
     value |-> [role |-> <<"tmpl10.role">>, specialization |-> <<"tmpl10.specialization">>,
               expertiseLevel |-> "senior",
               subSpecializations |-> <<<<"tmpl10.sub1">>, <<"tmpl10.sub2">>, <<"tmpl10.sub3">>>>,
               informationSources |-> <<<<"tmpl10.src1">>, <<"tmpl10.src2">>, <<"tmpl10.src3">>>>,
               researchFocus |-> <<"tmpl10.researchFocus">>]],
    \* line 162
    [key |-> <<"u30de", "u30fc", "u30b1", "u30c6", "u30a3", "u30f3", "u30b0", "u5c02", "u9580", "u5bb6">>,
     value |-> [role |-> <<"tmpl11.role">>, specialization |-> <<"tmpl11.specialization">>,
               expertiseLevel |-> "expert",
               subSpecializations |-> <<<<"tmpl11.sub1">>, <<"tmpl11.sub2">>, <<"tmpl11.sub3">>>>,
               informationSources |-> <<<<"tmpl11.src1">>, <<"tmpl11.src2">>, <<"tmpl11.src3">>>>,
               researchFocus |-> <<"tmpl11.researchFocus">>]],
    \* line 172
    [key |-> <<"u74b0", "u5883", "u5c02", "u9580", "u5bb6">>,
     value |-> [role |-> <<"tmpl12.role">>, specialization |-> <<"tmpl12.specialization">>,
               expertiseLevel |-> "expert",
               subSpecializations |-> <<<<"tmpl12.sub1">>, <<"tmpl12.sub2">>, <<"tmpl12.sub3">>>>,
               informationSources |-> <<<<"tmpl12.src1">>, <<"tmpl12.src2">>, <<"tmpl12.src3">>>>,
               researchFocus |-> <<"tmpl12.researchFocus">>]],
    \* line 182
    [key |-> <<"u533b", "u7642", "u5c02", "u9580", "u5bb6">>,
     value |-> [role |-> <<"tmpl13.role">>, specialization |-> <<"tmpl13.specialization">>,
               expertiseLevel |-> "expert",
               subSpecializations |-> <<<<"tmpl13.sub1">>, <<"tmpl13.sub2">>, <<"tmpl13.sub3">>>>,
               informationSources |-> <<<<"tmpl13.src1">>, <<"tmpl13.src2">>, <<"tmpl13.src3">>>>,
               researchFocus |-> <<"tmpl13.researchFocus">>]],
    \* line 192
    [key |-> <<"u6559", "u80b2", "u5c02", "u9580", "u5bb6">>,
     value |-> [role |-> <<"tmpl14.role">>, specialization |-> <<"tmpl14.specialization">>,
               expertiseLevel |-> "expert",
               subSpecializations |-> <<<<"tmpl14.sub1">>, <<"tmpl14.sub2">>, <<"tmpl14.sub3">>>>,
               informationSources |-> <<<<"tmpl14.src1">>, <<"tmpl14.src2">>, <<"tmpl14.src3">>>>,
               researchFocus |-> <<"tmpl14.researchFocus">>]],
    \* line 202
    [key |-> <<"u6cd5", "u52d9", "u5c02", "u9580", "u5bb6">>,
     value |-> [role |-> <<"tmpl15.role">>, specialization |-> <<"tmpl15.specialization">>,
               expertiseLevel |-> "expert",
               subSpecializations |-> <<<<"tmpl15.sub1">>, <<"tmpl15.sub2">>, <<"tmpl15.sub3">>>>,
               informationSources |-> <<<<"tmpl15.src1">>, <<"tmpl15.src2">>, <<"tmpl15.src3">>>>,
               researchFocus |-> <<"tmpl15.researchFocus">>]]
  >>

genericRoleGroups ==
  <<
    \* line 290
    [keywords |-> {<<"e", "v">>, <<"u96fb", "u6c17", "u81ea", "u52d5", "u8eca">>, <<"u30d0", "u30c3", "u30c6", "u30ea", "u30fc">>, <<"u5145", "u96fb">>},
     value |-> [description |-> <<"grp01.description">>, specialization |-> <<"grp01.specialization">>,
               subSpecializations |-> <<<<"grp01.sub1">>, <<"grp01.sub2">>, <<"grp01.sub3">>>>,
               informationSources |-> <<<<"grp01.src1">>, <<"grp01.src2">>, <<"grp01.src3">>>>,
               researchFocus |-> <<"grp01.researchFocus">>]],
    \* line 301
    [keywords |-> {<<"u30ac", "u30b9">>, <<"g", "a", "s">>, <<"u30a8", "u30cd", "u30eb", "u30ae", "u30fc">>, <<"u96fb", "u529b">>, <<"u96fb", "u6c17">>},
     value |-> [description |-> <<"grp02.description">>, specialization |-> <<"grp02.specialization">>,
               subSpecializations |-> <<<<"grp02.sub1">>, <<"grp02.sub2">>, <<"grp02.sub3">>>>,
               informationSources |-> <<<<"grp02.src1">>, <<"grp02.src2">>, <<"grp02.src3">>>>,
               researchFocus |-> <<"grp02.researchFocus">>]],
    \* line 312
    [keywords |-> {<<"u30b9", "u30dd", "u30fc", "u30c4">>, <<"s", "p", "o", "r", "t", "s">>, <<"u30e9", "u30a4", "u30bf", "u30fc">>, <<"u8a18", "u8005">>, <<"u30e1", "u30c7", "u30a3", "u30a2">>},
     value |-> [description |-> <<"grp03.description">>, specialization |-> <<"grp03.specialization">>,
               subSpecializations |-> <<<<"grp03.sub1">>, <<"grp03.sub2">>, <<"grp03.sub3">>>>,
               informationSources |-> <<<<"grp03.src1">>, <<"grp03.src2">>, <<"grp03.src3">>>>,
               researchFocus |-> <<"grp03.researchFocus">>]],
    \* line 323
    [keywords |-> {<<"u81ea", "u52d5", "u8eca">>, <<"u88fd", "u9020">>, <<"u5de5", "u5834">>, <<"u751f", "u7523">>},
     value |-> [description |-> <<"grp04.description">>, specialization |-> <<"grp04.specialization">>,
               subSpecializations |-> <<<<"grp04.sub1">>, <<"grp04.sub2">>, <<"grp04.sub3">>>>,
               informationSources |-> <<<<"grp04.src1">>, <<"grp04.src2">>, <<"grp04.src3">>>>,
               researchFocus |-> <<"grp04.researchFocus">>]],
    \* line 334
    [keywords |-> {<<"u533b", "u7642">>, <<"u5065", "u5eb7">>, <<"u75c5", "u9662">>, <<"u85ac">>, <<"u533b", "u5e2b">>, <<"u770b", "u8b77">>},
     value |-> [description |-> <<"grp05.description">>, specialization |-> <<"grp05.specialization">>,
               subSpecializations |-> <<<<"grp05.sub1">>, <<"grp05.sub2">>, <<"grp05.sub3">>>>,
               informationSources |-> <<<<"grp05.src1">>, <<"grp05.src2">>, <<"grp05.src3">>>>,
               researchFocus |-> <<"grp05.researchFocus">>]],
    \* line 345
    [keywords |-> {<<"u6559", "u80b2">>, <<"u5b66", "u7fd2">>, <<"u4eba", "u4e8b">>, <<"H", "R">>, <<"u63a1", "u7528">>},
     value |-> [description |-> <<"grp06.description">>, specialization |-> <<"grp06.specialization">>,
               subSpecializations |-> <<<<"grp06.sub1">>, <<"grp06.sub2">>, <<"grp06.sub3">>>>,
               informationSources |-> <<<<"grp06.src1">>, <<"grp06.src2">>, <<"grp06.src3">>>>,
               researchFocus |-> <<"grp06.researchFocus">>]],
    \* line 356
    [keywords |-> {<<"A", "I">>, <<"u4eba", "u5de5", "u77e5", "u80fd">>, <<"u6a5f", "u68b0", "u5b66", "u7fd2">>, <<"D", "X">>},
     value |-> [description |-> <<"grp07.description">>, specialization |-> <<"grp07.specialization">>,
               subSpecializations |-> <<<<"grp07.sub1">>, <<"grp07.sub2">>, <<"grp07.sub3">>>>,
               informationSources |-> <<<<"grp07.src1">>, <<"grp07.src2">>, <<"grp07.src3">>>>,
               researchFocus |-> <<"grp07.researchFocus">>]],
    \* line 367
    [keywords |-> {<<"u30c7", "u30fc", "u30bf">>, <<"u30a2", "u30ca", "u30ea", "u30b9", "u30c8">>, <<"u7d71", "u8a08">>, <<"u5206", "u6790">>},
     value |-> [description |-> <<"grp08.description">>, specialization |-> <<"grp08.specialization">>,
               subSpecializations |-> <<<<"grp08.sub1">>, <<"grp08.sub2">>, <<"grp08.sub3">>>>,
               informationSources |-> <<<<"grp08.src1">>, <<"grp08.src2">>, <<"grp08.src3">>>>,
               researchFocus |-> <<"grp08.researchFocus">>]],
    \* line 378
    [keywords |-> {<<"u30de", "u30fc", "u30b1", "u30c6", "u30a3", "u30f3", "u30b0">>, <<"u55b6", "u696d">>, <<"u8ca9", "u58f2">>, <<"u5e83", "u544a">>},
     value |-> [description |-> <<"grp09.description">>, specialization |-> <<"grp09.specialization">>,
               subSpecializations |-> <<<<"grp09.sub1">>, <<"grp09.sub2">>, <<"grp09.sub3">>>>,
               informationSources |-> <<<<"grp09.src1">>, <<"grp09.src2">>, <<"grp09.src3">>>>,
               researchFocus |-> <<"grp09.researchFocus">>]],
    \* line 389
    [keywords |-> {<<"u7d4c", "u55b6">>, <<"u6226", "u7565">>, <<"u30b3", "u30f3", "u30b5", "u30eb">>, <<"u793e", "u9577">>, <<"C", "E", "O">>, <<"u5f79", "u54e1">>},
     value |-> [description |-> <<"grp10.description">>, specialization |-> <<"grp10.specialization">>,
               subSpecializations |-> <<<<"grp10.sub1">>, <<"grp10.sub2">>, <<"grp10.sub3">>>>,
               informationSources |-> <<<<"grp10.src1">>, <<"grp10.src2">>, <<"grp10.src3">>>>,
               researchFocus |-> <<"grp10.researchFocus">>]],
    \* line 400
    [keywords |-> {<<"u6280", "u8853">>, <<"u30a8", "u30f3", "u30b8", "u30cb", "u30a2">>, <<"u958b", "u767a">>, <<"u30b7", "u30b9", "u30c6", "u30e0">>},
     value |-> [description |-> <<"grp11.description">>, specialization |-> <<"grp11.specialization">>,
               subSpecializations |-> <<<<"grp11.sub1">>, <<"grp11.sub2">>, <<"grp11.sub3">>>>,
               informationSources |-> <<<<"grp11.src1">>, <<"grp11.src2">>, <<"grp11.src3">>>>,
               researchFocus |-> <<"grp11.researchFocus">>]],
    \* line 411
    [keywords |-> {<<"u91d1", "u878d">>, <<"u6295", "u8cc7">>, <<"u7d4c", "u6e08">>, <<"u8ca1", "u52d9">>, <<"u9280", "u884c">>},
     value |-> [description |-> <<"grp12.description">>, specialization |-> <<"grp12.specialization">>,
               subSpecializations |-> <<<<"grp12.sub1">>, <<"grp12.sub2">>, <<"grp12.sub3">>>>,
               informationSources |-> <<<<"grp12.src1">>, <<"grp12.src2">>, <<"grp12.src3">>>>,
               researchFocus |-> <<"grp12.researchFocus">>]],
    \* line 422
    [keywords |-> {<<"u7269", "u6d41">>, <<"u30b5", "u30d7", "u30e9", "u30a4">>, <<"u8abf", "u9054">>, <<"u914d", "u9001">>},
     value |-> [description |-> <<"grp13.description">>, specialization |-> <<"grp13.specialization">>,
               subSpecializations |-> <<<<"grp13.sub1">>, <<"grp13.sub2">>, <<"grp13.sub3">>>>,
               informationSources |-> <<<<"grp13.src1">>, <<"grp13.src2">>, <<"grp13.src3">>>>,
               researchFocus |-> <<"grp13.researchFocus">>]]
  >>

\* the literal texts the model needs character by character
MsgDeadlineExceeded == <<"H", "a", "r", "d", " ", "d", "e", "a", "d", "l", "i", "n", "e", " ", "e", "x", "c", "e", "e", "d", "e", "d", " ", "b", "e", "f", "o", "r", "e", " ", "A", "P", "I", " ", "c", "a", "l", "l">>

MsgAborted == <<"R", "e", "q", "u", "e", "s", "t", " ", "a", "b", "o", "r", "t", "e", "d", " ", "d", "u", "e", " ", "t", "o", " ", "h", "a", "r", "d", " ", "d", "e", "a", "d", "l", "i", "n", "e">>

MsgSdkTimedOut == <<"R", "e", "q", "u", "e", "s", "t", " ", "t", "i", "m", "e", "d", " ", "o", "u", "t", ".">>

MsgConnection == <<"C", "o", "n", "n", "e", "c", "t", "i", "o", "n", " ", "e", "r", "r", "o", "r", ".">>

MsgRateLimit == <<"4", "2", "9", " ", "R", "a", "t", "e", " ", "l", "i", "m", "i", "t", " ", "r", "e", "a", "c", "h", "e", "d">>

MsgQuota == <<"4", "2", "9", " ", "Y", "o", "u", " ", "e", "x", "c", "e", "e", "d", "e", "d", " ", "y", "o", "u", "r", " ", "c", "u", "r", "r", "e", "n", "t", " ", "q", "u", "o", "t", "a">>

MsgAuth == <<"4", "0", "1", " ", "I", "n", "c", "o", "r", "r", "e", "c", "t", " ", "A", "P", "I", " ", "k", "e", "y", " ", "p", "r", "o", "v", "i", "d", "e", "d">>

MsgGateway == <<"5", "0", "4", " ", "u", "p", "s", "t", "r", "e", "a", "m", " ", "t", "i", "m", "e", "o", "u", "t">>

MsgSyntax == <<"U", "n", "e", "x", "p", "e", "c", "t", "e", "d", " ", "e", "n", "d", " ", "o", "f", " ", "J", "S", "O", "N", " ", "i", "n", "p", "u", "t">>

MsgSocket == <<"c", "o", "n", "n", "e", "c", "t", " ", "E", "T", "I", "M", "E", "D", "O", "U", "T">>

PhraseRequestTimedOut == <<"R", "e", "q", "u", "e", "s", "t", " ", "t", "i", "m", "e", "d", " ", "o", "u", "t">>

PhraseTimeout == <<"t", "i", "m", "e", "o", "u", "t">>

NameConstructor == <<"c", "o", "n", "s", "t", "r", "u", "c", "t", "o", "r">>

NameEvCharger == <<"E", "V", " ", "c", "h", "a", "r", "g", "e", "r">>

NameHrManager == <<"H", "R", " ", "m", "a", "n", "a", "g", "e", "r">>

NameDashes == <<"-", "-", "-">>

TextUndefined == <<"u", "n", "d", "e", "f", "i", "n", "e", "d">>


NameToString == <<"t", "o", "S", "t", "r", "i", "n", "g">>

NameValueOf == <<"v", "a", "l", "u", "e", "O", "f">>

NameHasOwnProperty == <<"h", "a", "s", "O", "w", "n", "P", "r", "o", "p", "e", "r", "t", "y">>

\* "AI" + u7814 u7a76 u8005: the first key of the template table (line 74)
NameAiResearcher == <<"A", "I", "u7814", "u7a76", "u8005">>

\* a name that contains the key of line 126
NameChiefDesigner == <<"u4e3b", "u4efb", "u30c7", "u30b6", "u30a4", "u30ca", "u30fc">>

\* one character, contained in the key of line 74
NameSha == <<"u8005">>

\* two words joined by the middle dot; no template key and no keyword matches
NameSpaceArchitect == <<"u5b87", "u5b99", "u30fb", "u5efa", "u7bc9", "u5bb6">>

\* own properties come first; a name that is no own key is looked up along the
\* prototype chain of the object literal (Object.prototype)
ObjectPrototypeKeys ==
  {NameConstructor, NameToString, NameValueOf, NameHasOwnProperty}

\* ------------------------------------------------ fallback synthesis

\* index of the first keyword group of generateGenericRole that matches, 0 if none
FirstGroup(nameLower) ==
  LET hits == {g \in 1..Len(genericRoleGroups) :
                 \E kw \in genericRoleGroups[g].keywords : Includes(nameLower, kw)}
  IN IF hits = {} THEN 0 ELSE CHOOSE g \in hits : \A h \in hits : g <= h

\* a template literal renders an undefined value as the text "undefined"
lastWord(expertName) ==
  LET words == SplitWords(expertName)
  IN IF Len(words) = 0 THEN TextUndefined ELSE words[Len(words)]

generateGenericRole(expertName) ==
  LET nameLower == toLowerCase(expertName)
      g == FirstGroup(nameLower)
      w == lastWord(expertName)
  IN IF g # 0 THEN genericRoleGroups[g].value
     ELSE [description |-> w \o <<"generic.description">>,
           specialization |-> <<"generic.specialization">>,
           subSpecializations |-> <<w \o <<"generic.sub1">>, <<"generic.sub2">>, <<"generic.sub3">>>>,
           informationSources |-> <<w \o <<"generic.src1">>, <<"generic.src2">>, <<"generic.src3">>>>,
           researchFocus |-> <<"generic.researchFocus.head">> \o w \o <<"generic.researchFocus.tail">>]

\* index of the template whose key is expertName, 0 if none
ExactTemplate(expertName) ==
  LET hits == {t \in 1..Len(expertFallbackTemplates) : expertFallbackTemplates[t].key = expertName}
  IN IF hits = {} THEN 0 ELSE CHOOSE t \in hits : TRUE

\* index of the first template (Object.entries order) whose key contains the
\* name or is contained in it, 0 if none
PartialTemplate(expertName) ==
  LET hits == {t \in 1..Len(expertFallbackTemplates) :
                 \/ Includes(expertName, expertFallbackTemplates[t].key)
                 \/ Includes(expertFallbackTemplates[t].key, expertName)}
  IN IF hits = {} THEN 0 ELSE CHOOSE t \in hits : \A h \in hits : t <= h

\* what expertFallbackTemplates[expertName] finds on the prototype chain: a
\* built-in function or object, truthy, with none of ExpertPrediction's fields
InheritedProperty(expertName) == [inheritedProperty |-> expertName]

getFallbackPrediction(expertName) ==
  LET exact == ExactTemplate(expertName)
      part == PartialTemplate(expertName)
      genericRole == generateGenericRole(expertName)
  IN IF exact # 0 THEN expertFallbackTemplates[exact].value
     ELSE IF expertName \in ObjectPrototypeKeys THEN InheritedProperty(expertName)
     ELSE IF part # 0
     THEN [expertFallbackTemplates[part].value EXCEPT
             !.role = expertName \o <<" ", "-", " ">> \o expertFallbackTemplates[part].value.role]
     ELSE [role |-> expertName \o <<" ", "-", " ">> \o genericRole.description,
           specialization |-> genericRole.specialization,
           expertiseLevel |-> "expert",
           subSpecializations |-> genericRole.subSpecializations,
           informationSources |-> genericRole.informationSources,
           researchFocus |-> genericRole.researchFocus]

\* ------------------------------------------------ program constants

CACHE_TTL == 900000

CIRCUIT_BREAKER_TIMEOUT == 10000

HARD_DEADLINE == 10000

\* the client option "timeout" of fastOpenai
SDK_TIMEOUT == 10000

\* "remainingTime <= 100": too little time left to call
MIN_REMAINING == 100

\* "remainingTime - 50": the guard band before the nominal deadline
ABORT_BUFFER == 50

\* the cap of the abort timer, "Math.min(..., 10000)"
ABORT_MAX == 10000

\* "state.failureCount >= 2"
FAILURE_THRESHOLD == 2

\* ------------------------------------------------------------ bounds

\* predictExpertInfo invocations in one run
MaxCallers == 4

\* how often the clock is advanced in one run
MaxTicks == 2

\* the expert names of one run
InputNames ==
  {<<>>, NameAiResearcher, NameChiefDesigner, NameSha, NameEvCharger,
   NameHrManager, NameDashes, NameSpaceArchitect, NameConstructor}

\* the names the concurrent callers of one run ask for: the empty string, a name
\* whose prediction is made from a template and the name of an inherited property
CallNames == {<<>>, NameChiefDesigner, NameConstructor}

\* a day (ms)
DAY_MS == 86400000

\* by how much the clock may advance in one step (ms)
TickSteps == {HARD_DEADLINE \div 2, CACHE_TTL}

Callers == 1..MaxCallers

\* ---------------------------------------------------------- Map

MapSet(m, k, v) == [x \in DOMAIN m \cup {k} |-> IF x = k THEN v ELSE m[x]]

MapDelete(m, k) == [x \in DOMAIN m \ {k} |-> m[x]]

EmptyMap == <<>>

\* ------------------------------------------- upstream call outcomes

\* the error objects the upstream call and the code around it can throw
ErrorObject(kind) ==
  CASE kind = "rate_limit"     -> [code |-> "rate_limit_exceeded", status |-> 429, message |-> MsgRateLimit]
    [] kind = "quota"          -> [code |-> "insufficient_quota", status |-> 429, message |-> MsgQuota]
    [] kind = "socket_timeout" -> [code |-> "ETIMEDOUT", status |-> 0, message |-> MsgSocket]
    [] kind = "sdk_timeout"    -> [code |-> "", status |-> 0, message |-> MsgSdkTimedOut]
    [] kind = "gateway"        -> [code |-> "", status |-> 504, message |-> MsgGateway]
    [] kind = "network"        -> [code |-> "", status |-> 0, message |-> MsgConnection]
    [] kind = "auth"           -> [code |-> "invalid_api_key", status |-> 401, message |-> MsgAuth]
    [] kind = "malformed"      -> [code |-> "", status |-> 0, message |-> MsgSyntax]
    [] kind = "aborted"        -> [code |-> "", status |-> 0, message |-> MsgAborted]
    [] kind = "deadline"       -> [code |-> "", status |-> 0, message |-> MsgDeadlineExceeded]

\* errors the upstream call itself rejects with
UpstreamErrors ==
  {"rate_limit", "quota", "socket_timeout", "sdk_timeout", "gateway", "network", "auth"}

\* the client gives up with "Request timed out." only SDK_TIMEOUT after the call was issued
UpstreamErrorPossible(kind, sinceIssued) ==
  kind = "sdk_timeout" => sinceIssued >= SDK_TIMEOUT

\* response bodies of a call that returns: message.content, parsed
ResponseBodies == {"full", "empty", "bad_types", "unparsable"}

JsonDocument(body) ==
  CASE body = "full" ->
         [role |-> <<"api.role">>, specialization |-> <<"api.specialization">>,
          expertiseLevel |-> "senior",
          subSpecializations |-> [isArray |-> TRUE, items |-> <<<<"api.sub1">>, <<"api.sub2">>>>],
          informationSources |-> [isArray |-> TRUE, items |-> <<<<"api.src1">>>>],
          researchFocus |-> <<"api.researchFocus">>]
    [] body = "empty" -> <<>>
    [] body = "bad_types" ->
         [role |-> <<"api.role">>, specialization |-> <<>>, expertiseLevel |-> "guru",
          subSpecializations |-> [isArray |-> FALSE],
          informationSources |-> [isArray |-> TRUE, items |-> <<>>]]

\* result.f || ""
TextOrEmpty(result, f) == IF f \in DOMAIN result THEN result[f] ELSE <<>>

\* Array.isArray(result.f) ? result.f : []
ArrayOrEmpty(result, f) ==
  IF f \in DOMAIN result /\ result[f].isArray THEN result[f].items ELSE <<>>

ExpertiseLevels == {"specialist", "expert", "senior"}

\* "Validate and set defaults if needed"
ValidateResponse(result) ==
  [role |-> TextOrEmpty(result, "role"),
   specialization |-> TextOrEmpty(result, "specialization"),
   expertiseLevel |-> IF "expertiseLevel" \in DOMAIN result /\ result.expertiseLevel \in ExpertiseLevels
                      THEN result.expertiseLevel ELSE "expert",
   subSpecializations |-> ArrayOrEmpty(result, "subSpecializations"),
   informationSources |-> ArrayOrEmpty(result, "informationSources"),
   researchFocus |-> TextOrEmpty(result, "researchFocus")]

\* getFallbackPrediction on the names of a run, evaluated once
FallbackOf == [expertName \in InputNames |-> getFallbackPrediction(expertName)]

\* ------------------------------------- cache and circuit breaker

Min(a, b) == IF a <= b THEN a ELSE b

\* getCachedPrediction without the comparison of the entry's age with its ttl
getCachedPredictionOfAnyAge(cache, expertName, t) ==
  IF expertName \notin DOMAIN cache
  THEN [hit |-> FALSE, predictionCache |-> cache]
  ELSE [hit |-> TRUE, data |-> cache[expertName].data, predictionCache |-> cache]

\* [hit, data, predictionCache]: the entry's data unless it is missing or
\* expired; an expired entry is deleted by the lookup
getCachedPrediction(cache, expertName, t) ==
  IF expertName \notin DOMAIN cache
  THEN [hit |-> FALSE, predictionCache |-> cache]
  ELSE LET entry == cache[expertName]
       IN IF t - entry.timestamp > entry.ttl
          THEN [hit |-> FALSE, predictionCache |-> MapDelete(cache, expertName)]
          ELSE [hit |-> TRUE, data |-> entry.data, predictionCache |-> cache]

\* cachePrediction with a time to live of ten seconds
cachePredictionBriefly(cache, expertName, prediction, t) ==
  MapSet(cache, expertName, [data |-> prediction, timestamp |-> t, ttl |-> CIRCUIT_BREAKER_TIMEOUT])

cachePrediction(cache, expertName, prediction, t) ==
  MapSet(cache, expertName, [data |-> prediction, timestamp |-> t, ttl |-> CACHE_TTL])

\* shouldBreakCircuit without the reset after the timeout: an open breaker stays open
shouldBreakCircuitWithoutReset(cb, expertName, t) ==
  IF expertName \notin DOMAIN cb
  THEN [result |-> FALSE, reset |-> FALSE, circuitBreaker |-> cb]
  ELSE [result |-> cb[expertName].isOpen, reset |-> FALSE, circuitBreaker |-> cb]

\* [result, reset, circuitBreaker]: an open breaker older than the timeout is
\* deleted, which the method logs as "Circuit breaker reset"
\* shouldBreakCircuit with a reset that does not ask whether the breaker is open
shouldBreakCircuitForgetting(cb, expertName, t) ==
  IF expertName \notin DOMAIN cb
  THEN [result |-> FALSE, reset |-> FALSE, circuitBreaker |-> cb]
  ELSE LET state == cb[expertName]
       IN IF (t - state.lastFailureTime) > CIRCUIT_BREAKER_TIMEOUT
          THEN [result |-> FALSE, reset |-> TRUE, circuitBreaker |-> MapDelete(cb, expertName)]
          ELSE [result |-> state.isOpen, reset |-> FALSE, circuitBreaker |-> cb]

shouldBreakCircuit(cb, expertName, t) ==
  IF expertName \notin DOMAIN cb
  THEN [result |-> FALSE, reset |-> FALSE, circuitBreaker |-> cb]
  ELSE LET state == cb[expertName]
       IN IF state.isOpen /\ (t - state.lastFailureTime) > CIRCUIT_BREAKER_TIMEOUT
          THEN [result |-> FALSE, reset |-> TRUE, circuitBreaker |-> MapDelete(cb, expertName)]
          ELSE [result |-> state.isOpen, reset |-> FALSE, circuitBreaker |-> cb]

\* a classification that counts every error
isAnyFailure(error) == error.message = error.message

isKnownFailure(error) ==
  \/ error.code = "insufficient_quota"
  \/ error.status = 429
  \/ error.code = "ETIMEDOUT"
  \/ Includes(error.message, PhraseRequestTimedOut)
  \/ Includes(error.message, PhraseTimeout)

recordCircuitBreakerFailure(cb, expertName, error, t) ==
  LET state == IF expertName \in DOMAIN cb THEN cb[expertName]
               ELSE [failureCount |-> 0, lastFailureTime |-> 0, isOpen |-> FALSE]
  IN IF isKnownFailure(error)
     THEN MapSet(cb, expertName,
                 [failureCount |-> state.failureCount + 1,
                  lastFailureTime |-> t,
                  isOpen |-> state.failureCount + 1 >= FAILURE_THRESHOLD])
     ELSE cb

\* ----------------------------------------------------------- state

VARIABLES
  now,               \* Date.now(), ms
  predictionCache,   \* Map expertName -> [data, timestamp, ttl]
  inflightRequests,  \* Map expertName -> promise (the id of the caller that made it)
  circuitBreaker,    \* Map expertName -> [failureCount, lastFailureTime, isOpen]
  callers,           \* the predictExpertInfo invocations, by id
  requests,          \* the promises of makeApiRequestWithDeadline, by the id of their caller
  microtasks,        \* the continuations due to run, in order (caller ids)
  upstreamCalls,     \* how many upstream calls were initiated (instrumentation)
  lastReturn,        \* the completion of a predictExpertInfo call, in the state it
                     \* leads to (instrumentation)
  breakerReset,      \* the step that led here logged "Circuit breaker reset"
                     \* (instrumentation)
  ticks,             \* how often the clock was advanced
  input              \* the expert name the callers of this run ask for

predictVars ==
  <<now, predictionCache, inflightRequests, circuitBreaker, callers, requests,
    microtasks, upstreamCalls, lastReturn, breakerReset, ticks, input>>

VARIABLES
  store,        \* which storage is in use
  analysis,     \* the Analysis record in the store
  orch,         \* the frame of processAnalysis
  tasks,        \* the limiter tasks of the fan-out in progress, in submission order
  due,          \* continuations due within the turn, in order (0: processAnalysis, i: task i)
  stops,        \* stop requests made
  atStop,       \* the record as the last stop request left it (instrumentation)
  storeErrors,  \* store calls that threw
  generatorErrors,  \* generator calls that failed
  scenario,     \* the scenario of the analysis: its targetYears
  experts,      \* the expert list storage.getExperts() returns
  stopPoint,    \* where processAnalysis was when the last stop request was
                \* recorded (instrumentation)
  events,       \* the event stream of the analysis: whether a client is connected, and what was written
  rendered,     \* the reports rendered from the compiled results, with the time
                \* of each render (instrumentation)
  expertRecords \* the Expert records in the store, by id

pipelineVars ==
  <<store, analysis, orch, tasks, due, stops, atStop, storeErrors, generatorErrors,
    scenario, experts, stopPoint, rendered, expertRecords, events>>

vars == <<predictVars, pipelineVars>>

NoValue == [none |-> TRUE]

\* sseConnections holds no connection for the analysis
NoEvents == [connected |-> FALSE, written |-> <<>>]

\* the frame of an invocation: where it is (pc), its argument, its locals
\* startTime and existingRequest (0: undefined)
IdleCaller ==
  [pc |-> "idle", expertName |-> <<>>, startTime |-> 0, existingRequest |-> 0]

NoRequest ==
  [state |-> "none", expertName |-> <<>>, issuedAt |-> 0, abortAt |-> 0,
   value |-> NoValue, error |-> "", waiters |-> <<>>]

NoReturn ==
  [caller |-> 0, expertName |-> <<>>, outcome |-> "", path |-> "",
   result |-> NoValue, elapsed |-> 0]

Finished == {"returned", "rejected"}

\* the invocation is over: its frame is gone
Left(pc) == [IdleCaller EXCEPT !.pc = pc]

\* the promise the continuation of caller c awaits
Awaited(c) == IF callers[c].pc = "joined" THEN callers[c].existingRequest ELSE c

\* caller c returns prediction through the return statement named path
Returns(c, self, prediction, path) ==
  /\ callers' = [callers EXCEPT ![c] = Left("returned")]
  /\ lastReturn' = [caller |-> c, expertName |-> self.expertName, outcome |-> "fulfilled",
                    path |-> path, result |-> prediction, elapsed |-> now - self.startTime]

\* a settled promise that no continuation awaits any more is dropped
Released(r, c) ==
  IF requests[r].waiters[Len(requests[r].waiters)] = c
  THEN [NoRequest EXCEPT !.state = "released"]
  ELSE requests[r]

\* makeApiRequestWithDeadline with the time left counted from the moment of the
\* request instead of from the caller's start time
makeApiRequestWithFreshDeadline(expertName, requestStartTime, t) ==
  [NoRequest EXCEPT !.state = "pending", !.expertName = expertName, !.issuedAt = t,
                    !.abortAt = t + Min(HARD_DEADLINE - ABORT_BUFFER, ABORT_MAX)]

\* makeApiRequestWithDeadline with the abort timer set to the whole of the
\* remaining time and a deadline that counts as expired only when none is left
makeApiRequestWithoutBuffer(expertName, requestStartTime, t) ==
  LET remainingTime == HARD_DEADLINE - (t - requestStartTime)
  IN IF remainingTime <= 0
     THEN [NoRequest EXCEPT !.state = "rejected", !.expertName = expertName,
                            !.issuedAt = t, !.error = "deadline"]
     ELSE [NoRequest EXCEPT !.state = "pending", !.expertName = expertName,
                            !.issuedAt = t,
                            !.abortAt = t + Min(remainingTime, ABORT_MAX)]

\* the promise of makeApiRequestWithDeadline as it is when the call returns it:
\* rejected at once when too little time is left, else pending with the abort
\* timer set from the caller's own start time
makeApiRequestWithDeadline(expertName, requestStartTime, t) ==
  LET remainingTime == HARD_DEADLINE - (t - requestStartTime)
  IN IF remainingTime <= MIN_REMAINING
     THEN [NoRequest EXCEPT !.state = "rejected", !.expertName = expertName,
                            !.issuedAt = t, !.error = "deadline"]
     ELSE [NoRequest EXCEPT !.state = "pending", !.expertName = expertName,
                            !.issuedAt = t,
                            !.abortAt = t + Min(remainingTime - ABORT_BUFFER, ABORT_MAX)]

InitPredict ==
  /\ now = 0
  /\ predictionCache = EmptyMap
  /\ inflightRequests = EmptyMap
  /\ circuitBreaker = EmptyMap
  /\ callers = [c \in Callers |-> IdleCaller]
  /\ requests = [c \in Callers |-> NoRequest]
  /\ microtasks = <<>>
  /\ upstreamCalls = 0
  /\ lastReturn = NoReturn
  /\ breakerReset = FALSE
  /\ ticks = 0
  /\ input \in CallNames

\* ------------------------------------------- predictExpertInfo

\* steps 3 and 4 up to the await: the breaker check, then either the breaker
\* fallback (cached, returned) or a new request, registered in the in-flight map
\* and awaited. cache is the cache as step 1 left it, queue the microtasks left
\* when this continuation was taken, reqs the promises as they are by then.
BreakerThenRequest(c, self, cache, queue, reqs) ==
  LET expertName == self.expertName
      break == shouldBreakCircuit(circuitBreaker, expertName, now)
      fallbackResult == FallbackOf[expertName]
      requestPromise == makeApiRequestWithDeadline(expertName, self.startTime, now)
  IN /\ circuitBreaker' = break.circuitBreaker
     /\ breakerReset' = break.reset
     /\ IF break.result
        THEN /\ predictionCache' = cachePrediction(cache, expertName, fallbackResult, now)
             /\ Returns(c, self, fallbackResult, "breaker")
             /\ microtasks' = queue
             /\ requests' = reqs
             /\ UNCHANGED <<inflightRequests, upstreamCalls>>
        ELSE /\ predictionCache' = cache
             /\ requests' = [reqs EXCEPT ![c] = [requestPromise EXCEPT !.waiters = <<c>>]]
             /\ inflightRequests' = MapSet(inflightRequests, expertName, c)
             /\ callers' = [callers EXCEPT ![c] = [self EXCEPT !.pc = "awaiting"]]
             /\ microtasks' = IF requestPromise.state = "rejected" THEN Append(queue, c) ELSE queue
             /\ upstreamCalls' = IF requestPromise.state = "pending"
                                 THEN upstreamCalls + 1 ELSE upstreamCalls
             /\ lastReturn' = NoReturn

\* a call can start when no continuation is due; callers start in the order of their ids
CanStart(c) ==
  /\ microtasks = <<>>
  /\ callers[c].pc = "idle"
  /\ \A d \in Callers : d < c => callers[d].pc # "idle"
  /\ UNCHANGED <<now, ticks, input>>
  /\ UNCHANGED pipelineVars

Entered(expertName) == [IdleCaller EXCEPT !.expertName = expertName, !.startTime = now]

\* StartCacheHit that consults the breaker before it returns the entry
StartCacheHitCheckingBreaker(c, expertName) ==
  LET cached == getCachedPrediction(predictionCache, expertName, now)
  IN /\ CanStart(c)
     /\ cached.hit
     /\ Returns(c, Entered(expertName), cached.data, "cache")
     /\ predictionCache' = cached.predictionCache
     /\ circuitBreaker' = shouldBreakCircuit(circuitBreaker, expertName, now).circuitBreaker
     /\ breakerReset' = FALSE
     /\ UNCHANGED <<inflightRequests, requests, microtasks, upstreamCalls>>

\* step 1 answers: the cache holds an unexpired entry
StartCacheHit(c, expertName) ==
  LET cached == getCachedPrediction(predictionCache, expertName, now)
  IN /\ CanStart(c)
     /\ cached.hit
     /\ Returns(c, Entered(expertName), cached.data, "cache")
     /\ predictionCache' = cached.predictionCache
     /\ breakerReset' = FALSE
     /\ UNCHANGED <<inflightRequests, circuitBreaker, requests, microtasks, upstreamCalls>>

\* StartJoin without the lookup in the in-flight map: the caller goes on to steps
\* 3 and 4 although a request for the name is in flight
StartJoinWithoutLookup(c, expertName) ==
  LET cached == getCachedPrediction(predictionCache, expertName, now)
  IN /\ CanStart(c)
     /\ ~cached.hit
     /\ expertName \in DOMAIN inflightRequests
     /\ BreakerThenRequest(c, Entered(expertName), cached.predictionCache, microtasks, requests)

\* step 2: a request for the name is in flight; await it
StartJoin(c, expertName) ==
  LET cached == getCachedPrediction(predictionCache, expertName, now)
      existingRequest == inflightRequests[expertName]
  IN /\ CanStart(c)
     /\ ~cached.hit
     /\ expertName \in DOMAIN inflightRequests
     /\ predictionCache' = cached.predictionCache
     /\ callers' = [callers EXCEPT ![c] =
                      [Entered(expertName) EXCEPT !.pc = "joined",
                                                  !.existingRequest = existingRequest]]
     /\ requests' = [requests EXCEPT ![existingRequest].waiters = Append(@, c)]
     /\ lastReturn' = NoReturn
     /\ breakerReset' = FALSE
     /\ UNCHANGED <<inflightRequests, circuitBreaker, microtasks, upstreamCalls>>

\* steps 3 and 4: nothing cached, nothing in flight
StartFresh(c, expertName) ==
  LET cached == getCachedPrediction(predictionCache, expertName, now)
  IN /\ CanStart(c)
     /\ ~cached.hit
     /\ expertName \notin DOMAIN inflightRequests
     /\ BreakerThenRequest(c, Entered(expertName), cached.predictionCache, microtasks, requests)

\* the continuation of caller c is the next to run
Resumes(c, pc, state) ==
  /\ microtasks # <<>>
  /\ Head(microtasks) = c
  /\ callers[c].pc = pc
  /\ requests[Awaited(c)].state = state
  /\ UNCHANGED <<now, ticks, input>>
  /\ UNCHANGED pipelineVars

\* the joined request was fulfilled: return its result
ResumeJoinFulfilled(c) ==
  LET r == callers[c].existingRequest
  IN /\ Resumes(c, "joined", "fulfilled")
     /\ Returns(c, callers[c], requests[r].value, "join")
     /\ requests' = [requests EXCEPT ![r] = Released(r, c)]
     /\ microtasks' = Tail(microtasks)
     /\ breakerReset' = FALSE
     /\ UNCHANGED <<predictionCache, inflightRequests, circuitBreaker, upstreamCalls>>

\* the catch of the join: "If inflight request failed, continue with new request"
JoinRejected(c) ==
  LET r == callers[c].existingRequest
  IN BreakerThenRequest(c, callers[c], predictionCache, Tail(microtasks),
                        [requests EXCEPT ![r] = Released(r, c)])

ResumeJoinRejected(c) ==
  /\ Resumes(c, "joined", "rejected")
  /\ JoinRejected(c)

\* ResumeOwnFulfilled without the cachePrediction call
ResumeOwnFulfilledWithoutCaching(c) ==
  LET self == callers[c]
      result == requests[c].value
  IN /\ Resumes(c, "awaiting", "fulfilled")
     /\ inflightRequests' = MapDelete(inflightRequests, self.expertName)
     /\ Returns(c, self, result, "success")
     /\ requests' = [requests EXCEPT ![c] = Released(c, c)]
     /\ microtasks' = Tail(microtasks)
     /\ breakerReset' = FALSE
     /\ UNCHANGED <<predictionCache, circuitBreaker, upstreamCalls>>

\* the caller's own request was fulfilled: cache the result, clear the in-flight entry
ResumeOwnFulfilled(c) ==
  LET self == callers[c]
      result == requests[c].value
  IN /\ Resumes(c, "awaiting", "fulfilled")
     /\ predictionCache' = cachePrediction(predictionCache, self.expertName, result, now)
     /\ inflightRequests' = MapDelete(inflightRequests, self.expertName)
     /\ Returns(c, self, result, "success")
     /\ requests' = [requests EXCEPT ![c] = Released(c, c)]
     /\ microtasks' = Tail(microtasks)
     /\ breakerReset' = FALSE
     /\ UNCHANGED <<circuitBreaker, upstreamCalls>>

\* the catch of the caller's own request: record the failure, clear the
\* in-flight entry, cache and return the fallback
OwnRejected(c) ==
  LET self == callers[c]
      fallbackResult == FallbackOf[self.expertName]
  IN /\ circuitBreaker' = recordCircuitBreakerFailure(circuitBreaker, self.expertName,
                                                     ErrorObject(requests[c].error), now)
     /\ inflightRequests' = MapDelete(inflightRequests, self.expertName)
     /\ predictionCache' = cachePrediction(predictionCache, self.expertName, fallbackResult, now)
     /\ Returns(c, self, fallbackResult, "failure")

ResumeOwnRejected(c) ==
  /\ Resumes(c, "awaiting", "rejected")
  /\ OwnRejected(c)
  /\ requests' = [requests EXCEPT ![c] = Released(c, c)]
  /\ microtasks' = Tail(microtasks)
  /\ breakerReset' = FALSE
  /\ UNCHANGED upstreamCalls

\* ------------------------------------------------ the upstream call

Pending(r) == requests[r].state = "pending"

\* a request settles: the continuations awaiting it become due, in the order
\* in which they awaited
Settle(r, settled) ==
  /\ requests' = [requests EXCEPT ![r] = settled]
  /\ microtasks' = requests[r].waiters
  /\ lastReturn' = NoReturn
  /\ breakerReset' = FALSE
  /\ UNCHANGED <<now, predictionCache, inflightRequests, circuitBreaker, callers,
                 upstreamCalls, ticks, input>>
  /\ UNCHANGED pipelineVars

\* the call returns a response: clear the timer, parse, validate
UpstreamResponds(r, body) ==
  /\ microtasks = <<>>
  /\ Pending(r)
  /\ IF body = "unparsable"
     THEN Settle(r, [requests[r] EXCEPT !.state = "rejected", !.error = "malformed"])
     ELSE Settle(r, [requests[r] EXCEPT !.state = "fulfilled",
                                        !.value = ValidateResponse(JsonDocument(body))])

\* the call rejects on its own; the signal is not aborted, the error is rethrown
UpstreamFails(r, kind) ==
  /\ microtasks = <<>>
  /\ Pending(r)
  /\ UpstreamErrorPossible(kind, now - requests[r].issuedAt)
  /\ Settle(r, [requests[r] EXCEPT !.state = "rejected", !.error = kind])

\* the abort timer fires; the call rejects at once and the catch replaces the
\* error by "Request aborted due to hard deadline"
AbortTimerFires(r) ==
  /\ microtasks = <<>>
  /\ Pending(r)
  /\ now = requests[r].abortAt
  /\ Settle(r, [requests[r] EXCEPT !.state = "rejected", !.error = "aborted"])

\* time passes: by d, or up to the next abort timer if that is due sooner; a
\* timer that is due fires before time passes. The clock is read from the first
\* call on, and as long as a call is still to come or to end.
Tick(d) ==
  LET timers == {requests[r].abortAt : r \in {x \in Callers : Pending(x)}}
      to == IF \E t \in timers : t < now + d
            THEN CHOOSE t \in timers : \A u \in timers : t <= u
            ELSE now + d
  IN /\ microtasks = <<>>
     /\ ticks < MaxTicks
     /\ \E c \in Callers : callers[c].pc # "idle"
     /\ \E c \in Callers : callers[c].pc \notin Finished
     /\ \A t \in timers : t > now
     /\ now' = to
     /\ ticks' = ticks + 1
     /\ lastReturn' = NoReturn
     /\ breakerReset' = FALSE
     /\ UNCHANGED <<predictionCache, inflightRequests, circuitBreaker, callers, requests,
                    microtasks, upstreamCalls, input>>
     /\ UNCHANGED pipelineVars

NextPredict ==
  \/ \E c \in Callers : StartCacheHit(c, input)
  \/ \E c \in Callers : StartJoin(c, input)
  \/ \E c \in Callers : StartFresh(c, input)
  \/ \E c \in Callers : ResumeJoinFulfilled(c)
  \/ \E c \in Callers : ResumeJoinRejected(c)
  \/ \E c \in Callers : ResumeOwnFulfilled(c)
  \/ \E c \in Callers : ResumeOwnRejected(c)
  \/ \E r \in Callers, body \in ResponseBodies : UpstreamResponds(r, body)
  \/ \E r \in Callers, kind \in UpstreamErrors : UpstreamFails(r, kind)
  \/ \E r \in Callers : AbortTimerFires(r)
  \/ \E d \in TickSteps : Tick(d)

\* ------------------------------------------------ the analysis pipeline

\* pLimit(4)
CONCURRENCY == 4

\* target years of the scenario
NumYears == 2

\* experts in the store
NumExperts == 2

\* stop requests in one run
MaxStops == 1

\* store calls of the pipeline that throw in one run
MaxStoreErrors == 2

\* generator calls that fail in one run
MaxGeneratorErrors == 1

\* "const targetYears = scenario.targetYears as number[]"
targetYears == scenario.targetYears

Years == 1..Len(targetYears)

Experts == 1..Len(experts)

\* the scenarios of a run: one to maxYears target years, ten years apart, or
\* the same year given twice (the column is free JSON, schema.ts:33)
Scenarios(maxYears) ==
  {[targetYears |-> [y \in 1..n |-> 2020 + 10 * y]] : n \in 1..maxYears}
    \cup {[targetYears |-> [y \in 1..2 |-> 2030]] : n \in 2..maxYears}

\* the expert lists of a run: none to maxExperts experts
ExpertLists(maxExperts) == {[e \in 1..m |-> e] : m \in 0..maxExperts}

\* what a generator call can come to: the model's text, or the text the
\* generator puts in its place when the call fails
GeneratorOutcomes == {"text", "errorText"}

\* the storage in use: the Map of MemStorage, whose calls complete within the
\* turn, or the database of PostgreSQLStorage, whose calls complete in a later turn
Stores == {"memory", "database"}


\* the record as the start route creates it
CreatedAnalysis ==
  [status |-> "running", progress |-> 0, currentPhase |-> "1",
   partialResults |-> NoValue, results |-> NoValue, markdownReport |-> NoValue]

\* storage.updateAnalysis: the given fields replace the stored ones
updateAnalysis(record, updates) ==
  [f \in DOMAIN record |-> IF f \in DOMAIN updates THEN updates[f] ELSE record[f]]

\* the frame of processAnalysis: where it is, the status its last check read,
\* and its locals
StartedOrch ==
  [pc |-> "getExperts", status |-> "", currentStep |-> 0,
   expertAnalysesByYear |-> [y \in Years |-> <<>>],
   scenariosByYear |-> [y \in Years |-> NoValue],
   longTermPerspective |-> NoValue, strategicAlignment |-> NoValue]

totalSteps == 1 + Len(targetYears) + 3

\* a percentage that counts the step in progress as done
ProgressAtNextStep(currentStep) == ((currentStep + 1) * 100) \div totalSteps

\* String(Math.floor((currentStep / totalSteps) * 100)), as a number
ProgressAt(currentStep) == (currentStep * 100) \div totalSteps

\* processAnalysis awaits storage.getExperts()
AfterStoreCallAtStart == IF store = "memory" THEN <<0>> ELSE <<>>

InitPipeline ==
  /\ scenario \in Scenarios(NumYears)
  /\ experts \in ExpertLists(NumExperts)
  /\ stopPoint = NoValue
  /\ rendered = <<>>
  /\ events = NoEvents
  /\ expertRecords = experts
  /\ store \in Stores
  /\ analysis = CreatedAnalysis
  /\ orch = StartedOrch
  /\ tasks = <<>>
  /\ due = AfterStoreCallAtStart
  /\ stops = 0
  /\ atStop = NoValue
  /\ storeErrors = 0
  /\ generatorErrors = 0

\* no analysis was started
NoPipeline ==
  /\ scenario = [targetYears |-> <<>>]
  /\ experts = <<>>
  /\ stopPoint = NoValue
  /\ rendered = <<>>
  /\ events = NoEvents
  /\ expertRecords = experts
  /\ store = "memory"
  /\ analysis = NoValue
  /\ orch = [StartedOrch EXCEPT !.pc = "returned"]
  /\ tasks = <<>>
  /\ due = <<>>
  /\ stops = 0
  /\ atStop = NoValue
  /\ storeErrors = 0
  /\ generatorErrors = 0

\* no prediction was asked for
NoPredict ==
  /\ InitPredict
  /\ input = <<>>

\* the continuation of the thread may run: it is the next one due within the
\* turn, or nothing is due and its store call has completed
Turn(thread) == IF due = <<>> THEN TRUE ELSE Head(due) = thread

\* the continuations due once the thread has taken its turn and awaits a store call
AfterStoreCall(thread) ==
  (IF due = <<>> THEN <<>> ELSE Tail(due)) \o (IF store = "memory" THEN <<thread>> ELSE <<>>)

\* the continuations due once the thread has taken its turn and awaits something
\* that completes in a later turn
AfterTurn == IF due = <<>> THEN <<>> ELSE Tail(due)

\* processAnalysis goes from pc "from" to pc "to"; the store call it makes on
\* the way turns the record into "record"
OrchStoreStep(from, to, newOrch, record) ==
  /\ orch.pc = from
  /\ Turn(0)
  /\ orch' = [newOrch EXCEPT !.pc = to]
  /\ analysis' = record
  /\ due' = AfterStoreCall(0)
  /\ UNCHANGED <<events, rendered, expertRecords, store, scenario, experts, tasks, stops, atStop, stopPoint, storeErrors>>
  /\ UNCHANGED predictVars

\* checkIfStopped: the status read is kept for the test that follows
CheckIfStopped(from, to, newOrch) ==
  OrchStoreStep(from, to, [newOrch EXCEPT !.status = analysis.status], analysis)

\* the generator call comes to the outcome; a failed call is counted
Generated(outcome) ==
  /\ outcome = "errorText" => generatorErrors < MaxGeneratorErrors
  /\ generatorErrors' = IF outcome = "errorText" THEN generatorErrors + 1 ELSE generatorErrors

\* "if (await checkIfStopped(analysisId)) return"
SawStopped == orch.status = "stopped"

\* "Update to running status"
MarkRunning ==
  /\ OrchStoreStep("getExperts", "markRunning", orch,
                   updateAnalysis(analysis, [status |-> "running", progress |-> 0,
                                             currentPhase |-> "1"]))
  /\ UNCHANGED generatorErrors

\* "Check if stopped before starting Phase 1"
CheckBeforePhase1 ==
  /\ CheckIfStopped("markRunning", "checkBefore1", orch)
  /\ UNCHANGED generatorErrors

\* processAnalysis returns; its frame and the tasks it joined are gone
OrchReturns(from) ==
  /\ orch.pc = from
  /\ Turn(0)
  /\ orch' = [StartedOrch EXCEPT !.pc = "returned"]
  /\ tasks' = <<>>
  /\ due' = AfterTurn
  /\ UNCHANGED <<events, rendered, expertRecords, store, scenario, experts, analysis, stops, atStop, stopPoint, storeErrors, generatorErrors>>
  /\ UNCHANGED predictVars

\* processAnalysis goes on to something that completes in a later turn: the
\* join over the limiter tasks newTasks, or a generator call of its own
OrchAwaits(from, to, newTasks) ==
  /\ orch.pc = from
  /\ Turn(0)
  /\ orch' = [orch EXCEPT !.pc = to]
  /\ tasks' = newTasks
  /\ due' = AfterTurn \o (IF newTasks = <<>> /\ to \in {"join1", "join2"} THEN <<0>> ELSE <<>>)
  /\ UNCHANGED <<events, rendered, expertRecords, store, scenario, experts, analysis, stops, atStop, stopPoint, storeErrors, generatorErrors>>
  /\ UNCHANGED predictVars

\* ------------------------------------------------------ the limiter

QueuedTask(phase, year, expert) ==
  [phase |-> phase, year |-> year, expert |-> expert, state |-> "queued",
   content |-> NoValue, partial |-> NoValue]

\* tasks made for the Expert records in the store at the time of scheduling
Phase1TasksOfStoredExperts ==
  [k \in 1..(Len(targetYears) * Len(expertRecords)) |->
     QueuedTask(1, ((k - 1) \div Len(expertRecords)) + 1, ((k - 1) % Len(expertRecords)) + 1)]

\* "for (const targetYear of targetYears) for (const expert of experts)"
Phase1Tasks ==
  [k \in 1..(Len(targetYears) * Len(experts)) |->
     QueuedTask(1, ((k - 1) \div Len(experts)) + 1, ((k - 1) % Len(experts)) + 1)]

\* "targetYears.map(targetYear => limit(...))"
Phase2Tasks == [y \in Years |-> QueuedTask(2, y, 0)]

Running(ts) == {i \in DOMAIN ts : ts[i].state \in {"calling", "read", "written"}}

Queued(ts) == {i \in DOMAIN ts : ts[i].state = "queued"}

\* a join that completes with the first task that settles instead of the last
FirstSettled(ts) == \E i \in DOMAIN ts : ts[i].state = "settled"

\* Promise.all over the tasks: every task has settled
AllSettled(ts) == \A i \in DOMAIN ts : ts[i].state = "settled"

\* a limiter without the counting gate: every queued task starts
AdmitAll(ts) ==
  [i \in DOMAIN ts |-> IF ts[i].state = "queued" THEN [ts[i] EXCEPT !.state = "calling"] ELSE ts[i]]

\* a limiter that starts the latest submitted of the queued tasks first
AdmitLatestFirst(ts) ==
  LET free == CONCURRENCY - Cardinality(Running(ts))
      admitted == {i \in Queued(ts) : Cardinality({j \in Queued(ts) : j > i}) < free}
  IN [i \in DOMAIN ts |-> IF i \in admitted THEN [ts[i] EXCEPT !.state = "calling"] ELSE ts[i]]

\* the limiter starts queued tasks, the earliest submitted first, while fewer
\* than CONCURRENCY are running; a started task issues its generator call
Admit(ts) ==
  LET free == CONCURRENCY - Cardinality(Running(ts))
      admitted == {i \in Queued(ts) : Cardinality({j \in Queued(ts) : j < i}) < free}
  IN [i \in DOMAIN ts |-> IF i \in admitted THEN [ts[i] EXCEPT !.state = "calling"] ELSE ts[i]]

\* the entry a task adds to the partial results
PartialEntry(task) ==
  IF task.phase = 1
  THEN [expert |-> task.expert, year |-> targetYears[task.year], content |-> task.content]
  ELSE [year |-> targetYears[task.year], content |-> task.content]

PartialType(task) == IF task.phase = 1 THEN "expertAnalyses" ELSE "yearScenarios"

EmptyPartialResults ==
  [expertAnalyses |-> <<>>, yearScenarios |-> <<>>, phaseResults |-> <<>>]

\* a publication that carries the first target year whatever the task
sendPartialOfFirstYear(task, content) ==
  IF events.connected
  THEN [events EXCEPT !.written =
          Append(@, [event |-> IF task.phase = 1 THEN "partial_expert_analysis"
                               ELSE "partial_year_scenario",
                     expert |-> task.expert, year |-> targetYears[1], content |-> content])]
  ELSE events

\* sendPartialExpertAnalysis / sendPartialYearScenario: the event is written on
\* the connection of the analysis, if there is one
sendPartial(task, content) ==
  IF events.connected
  THEN [events EXCEPT !.written =
          Append(@, [event |-> IF task.phase = 1 THEN "partial_expert_analysis"
                               ELSE "partial_year_scenario",
                     expert |-> task.expert, year |-> targetYears[task.year],
                     content |-> content])]
  ELSE events

\* the generator call of task i returns; the task publishes the partial result
\* and calls updatePartialResults, which reads the record
TaskGeneratorReturns(i, outcome) ==
  /\ i \in DOMAIN tasks
  /\ tasks[i].state = "calling"
  /\ due = <<>>
  /\ tasks' = [tasks EXCEPT ![i].state = "read", ![i].content = outcome,
                            ![i].partial = analysis.partialResults]
  /\ due' = AfterStoreCall(i)
  /\ Generated(outcome)
  /\ events' = sendPartial(tasks[i], outcome)
  /\ UNCHANGED <<rendered, expertRecords, store, scenario, experts, analysis, orch, stops, atStop, stopPoint, storeErrors>>
  /\ UNCHANGED predictVars

\* updatePartialResults: push the entry on the partial results read, write them back
TaskAppends(i) ==
  LET read == tasks[i].partial
      currentPartial == IF read = NoValue THEN EmptyPartialResults ELSE read
      type == PartialType(tasks[i])
  IN /\ i \in DOMAIN tasks
     /\ tasks[i].state = "read"
     /\ Turn(i)
     /\ analysis' = updateAnalysis(analysis,
                      [partialResults |->
                         [currentPartial EXCEPT ![type] = Append(@, PartialEntry(tasks[i]))]])
     /\ tasks' = [tasks EXCEPT ![i].state = "written", ![i].partial = NoValue]
     /\ due' = AfterStoreCall(i)
     /\ UNCHANGED <<events, rendered, expertRecords, store, scenario, experts, orch, stops, atStop, stopPoint, storeErrors, generatorErrors>>
     /\ UNCHANGED predictVars

\* a task that settles without giving its slot back: no queued task starts
TaskSettlesWithoutRelease(i) ==
  LET settled == [tasks EXCEPT ![i].state = "settled"]
  IN /\ i \in DOMAIN tasks
     /\ tasks[i].state = "written"
     /\ Turn(i)
     /\ tasks' = settled
     /\ due' = AfterTurn \o (IF \A j \in DOMAIN settled : settled[j].state = "settled"
                              THEN <<0>> ELSE <<>>)
     /\ UNCHANGED <<events, rendered, expertRecords, store, scenario, experts, analysis, orch, stops, atStop, stopPoint, storeErrors, generatorErrors>>
     /\ UNCHANGED predictVars

\* the task returns; the limiter starts the next queued task; the join
\* completes with the last task
TaskSettles(i) ==
  LET settled == [tasks EXCEPT ![i].state = "settled"]
  IN /\ i \in DOMAIN tasks
     /\ tasks[i].state = "written"
     /\ Turn(i)
     /\ tasks' = Admit(settled)
     /\ due' = AfterTurn \o (IF AllSettled(settled) THEN <<0>> ELSE <<>>)
     /\ UNCHANGED <<events, rendered, expertRecords, store, scenario, experts, analysis, orch, stops, atStop, stopPoint, storeErrors, generatorErrors>>
     /\ UNCHANGED predictVars

\* --------------------------------------------------- processAnalysis

\* the tasks start unless the check read "stopped"
SchedulePhase1 ==
  IF SawStopped THEN OrchReturns("checkBefore1")
  ELSE OrchAwaits("checkBefore1", "join1", Admit(Phase1Tasks))

\* grouping by the position of a result in the array of the join instead of by
\* the year tagged onto it
GroupByPosition(ts) ==
  [y \in Years |->
     LET count == Cardinality({k \in DOMAIN ts : ((k - 1) % Len(targetYears)) + 1 = y})
     IN [j \in 1..count |->
           [expert |-> ts[(j - 1) * Len(targetYears) + y].expert,
            content |-> ts[(j - 1) * Len(targetYears) + y].content]]]

\* grouping the analyses in the order in which the tasks completed (the order
\* of the persisted partial results) instead of the order of the join's array
GroupByCompletion(ts) ==
  [y \in Years |->
     LET done == IF analysis.partialResults = NoValue THEN <<>>
                 ELSE analysis.partialResults.expertAnalyses
         ofYear == SelectSeq(done, LAMBDA entry : entry.year = targetYears[y])
     IN [k \in 1..Len(ofYear) |-> [expert |-> ofYear[k].expert, content |-> ofYear[k].content]]]

\* "Group successful analysis results by year": the results of the join are in
\* submission order
GroupByYear(ts) ==
  [y \in Years |->
     LET ofYear == SelectSeq(ts, LAMBDA task : targetYears[task.year] = targetYears[y])
     IN [k \in 1..Len(ofYear) |-> [expert |-> ofYear[k].expert, content |-> ofYear[k].content]]]

\* the join of phase 1 completed: group, count the step, "Check if stopped after Phase 1"
CheckAfterPhase1 ==
  /\ AllSettled(tasks)
  /\ CheckIfStopped("join1", "checkAfter1",
                    [orch EXCEPT !.expertAnalysesByYear = GroupByYear(tasks),
                                 !.currentStep = @ + 1])
  /\ UNCHANGED generatorErrors

\* the progress update that opens a phase
PhaseUpdate(currentStep, currentPhase) ==
  updateAnalysis(analysis, [progress |-> ProgressAt(currentStep), currentPhase |-> currentPhase])

EnterPhase2 ==
  IF SawStopped THEN OrchReturns("checkAfter1")
  ELSE /\ OrchStoreStep("checkAfter1", "enter2", orch, PhaseUpdate(orch.currentStep, "2"))
       /\ UNCHANGED generatorErrors

SchedulePhase2 ==
  /\ orch.pc = "enter2"
  /\ OrchAwaits("enter2", "join2", Admit(Phase2Tasks))

\* "scenariosByYear.set(result.targetYear, result.scenarioContent)" over the
\* results of the join in submission order: the last result of a year stays
ScenariosByYear(ts) ==
  [y \in Years |->
     LET ofYear == {i \in DOMAIN ts : targetYears[ts[i].year] = targetYears[y]}
     IN ts[CHOOSE i \in ofYear : \A j \in ofYear : j <= i].content]

\* the join of phase 2 completed: collect the scenarios, "Add all year steps at
\* once", update the progress
EnterPhase3 ==
  /\ AllSettled(tasks)
  /\ OrchStoreStep("join2", "enter3",
                   [orch EXCEPT !.scenariosByYear = ScenariosByYear(tasks),
                                !.currentStep = @ + Len(targetYears)],
                   PhaseUpdate(orch.currentStep + Len(targetYears), "3"))
  /\ UNCHANGED generatorErrors

\* "Check if stopped before Phase 3"
CheckBeforePhase3 ==
  /\ CheckIfStopped("enter3", "checkBefore3", orch)
  /\ UNCHANGED generatorErrors

CallLongTerm ==
  IF SawStopped THEN OrchReturns("checkBefore3")
  ELSE OrchAwaits("checkBefore3", "phase3", <<>>)

\* a generateLongTermPerspective whose failure is thrown to processAnalysis
\* instead of being turned into a text
LongTermReturnsOrThrows(outcome) ==
  /\ due = <<>>
  /\ Generated(outcome)
  /\ IF outcome = "errorText"
     THEN /\ orch.pc = "phase3"
          /\ orch' = [StartedOrch EXCEPT !.pc = "caught"]
          /\ tasks' = <<>>
          /\ due' = AfterTurn
          /\ UNCHANGED <<events, rendered, expertRecords, store, scenario, experts, analysis, stops, atStop, stopPoint, storeErrors>>
          /\ UNCHANGED predictVars
     ELSE CheckIfStopped("phase3", "checkAfter3", [orch EXCEPT !.longTermPerspective = outcome])

\* generateLongTermPerspective returns; "Check if stopped after Phase 3"
LongTermReturns(outcome) ==
  /\ due = <<>>
  /\ CheckIfStopped("phase3", "checkAfter3", [orch EXCEPT !.longTermPerspective = outcome])
  /\ Generated(outcome)

EnterPhase4 ==
  IF SawStopped THEN OrchReturns("checkAfter3")
  ELSE /\ OrchStoreStep("checkAfter3", "enter4", [orch EXCEPT !.currentStep = @ + 1],
                        PhaseUpdate(orch.currentStep + 1, "4"))
       /\ UNCHANGED generatorErrors

CallAlignment ==
  /\ orch.pc = "enter4"
  /\ OrchAwaits("enter4", "phase4", <<>>)

\* evaluateStrategicAlignment returns; the progress update follows at once
AlignmentReturns(outcome) ==
  /\ due = <<>>
  /\ OrchStoreStep("phase4", "enter5",
                   [orch EXCEPT !.strategicAlignment = outcome, !.currentStep = @ + 1],
                   PhaseUpdate(orch.currentStep + 1, "5"))
  /\ Generated(outcome)

CallFinal ==
  /\ orch.pc = "enter5"
  /\ OrchAwaits("enter5", "phase5", <<>>)

\* a compilation that gives every year the phase-1 and phase-2 content of the
\* first one
CompiledYearsFromFirst(finalSimulation) ==
  [y \in Years |->
     [year |-> targetYears[y],
      phases |-> <<[phase |-> 1, analyses |-> orch.expertAnalysesByYear[1]],
                   [phase |-> 2, content |-> orch.scenariosByYear[1]],
                   [phase |-> 3, content |-> orch.longTermPerspective],
                   [phase |-> 4, content |-> orch.strategicAlignment],
                   [phase |-> 5, content |-> finalSimulation]>>]]

\* "Compile results for each year"
CompiledYears(finalSimulation) ==
  [y \in Years |->
     [year |-> targetYears[y],
      phases |-> <<[phase |-> 1, analyses |-> orch.expertAnalysesByYear[y]],
                   [phase |-> 2, content |-> orch.scenariosByYear[y]],
                   [phase |-> 3, content |-> orch.longTermPerspective],
                   [phase |-> 4, content |-> orch.strategicAlignment],
                   [phase |-> 5, content |-> finalSimulation]>>]]

\* a report that carries the instant of its rendering
ReportWithTimestamp(years, yearResults, clock) ==
  [date |-> clock, targetYears |-> years, reportOf |-> yearResults]

\* "new Date().toISOString().split('T')[0]": the UTC day of the instant
UtcDate(clock) == clock \div DAY_MS

\* the report is made of the day it is rendered on ("generated on"), of the
\* target years and of the compiled years
generateMarkdownReportMultiYear(years, yearResults, clock) ==
  [date |-> UtcDate(clock), targetYears |-> years, reportOf |-> yearResults]

\* generateFinalSimulation returns; compile, render, "Final update"
FinalReturns(outcome) ==
  LET yearResults == CompiledYears(outcome)
  IN /\ due = <<>>
     /\ OrchStoreStep("phase5", "final", [orch EXCEPT !.currentStep = @ + 1],
                      updateAnalysis(analysis,
                        [status |-> "completed", progress |-> 100, currentPhase |-> "5",
                         results |-> [years |-> yearResults, phases |-> yearResults[1].phases],
                         markdownReport |->
                           generateMarkdownReportMultiYear(targetYears, yearResults, now)]))
     /\ Generated(outcome)

\* the next thing processAnalysis does is a store call of its own
NextIsStoreCall ==
  \/ orch.pc \in {"getExperts", "markRunning", "enter3", "phase3", "phase4", "phase5", "caught"}
  \/ orch.pc \in {"checkAfter1", "checkAfter3"} /\ ~SawStopped
  \/ orch.pc \in {"join1", "join2"} /\ AllSettled(tasks)

\* a store call of processAnalysis throws (the database is not reachable): the
\* catch block is entered; when the call of the catch block throws,
\* processAnalysis rejects
StoreFails ==
  /\ store = "database"
  /\ storeErrors < MaxStoreErrors
  /\ NextIsStoreCall
  /\ Turn(0)
  /\ orch' = [StartedOrch EXCEPT !.pc = IF orch.pc = "caught" THEN "returned" ELSE "caught"]
  /\ tasks' = <<>>
  /\ storeErrors' = storeErrors + 1
  /\ due' = AfterTurn
  /\ UNCHANGED <<events, rendered, expertRecords, store, scenario, experts, analysis, stops, atStop, stopPoint, generatorErrors>>
  /\ UNCHANGED predictVars

\* a catch block that also sets the progress back
HandleErrorResetting ==
  /\ OrchStoreStep("caught", "handled", orch,
                   updateAnalysis(analysis, [status |-> "failed", progress |-> 0,
                                             results |-> [error |-> "message"]]))
  /\ UNCHANGED generatorErrors

\* the catch block of processAnalysis
HandleError ==
  /\ OrchStoreStep("caught", "handled", orch,
                   updateAnalysis(analysis, [status |-> "failed",
                                             results |-> [error |-> "message"]]))
  /\ UNCHANGED generatorErrors

\* the last store call returns and processAnalysis ends
Finish ==
  /\ orch.pc \in {"final", "handled"}
  /\ OrchReturns(orch.pc)

\* POST /api/analysis/:id/stop
Stop ==
  /\ due = <<>>
  /\ stops < MaxStops
  /\ analysis' = updateAnalysis(analysis, [status |-> "stopped", progress |-> 0])
  /\ atStop' = analysis'
  /\ stopPoint' = [pc |-> orch.pc, settled |-> AllSettled(tasks),
                   status |-> analysis.status]
  /\ stops' = stops + 1
  /\ UNCHANGED <<events, rendered, expertRecords, store, scenario, experts, orch, tasks, due, storeErrors, generatorErrors>>
  /\ UNCHANGED predictVars

NextPipeline ==
  \/ MarkRunning
  \/ CheckBeforePhase1
  \/ SchedulePhase1
  \/ \E i \in DOMAIN tasks, outcome \in GeneratorOutcomes :
       TaskGeneratorReturns(i, outcome)
  \/ \E i \in DOMAIN tasks : TaskAppends(i)
  \/ \E i \in DOMAIN tasks : TaskSettles(i)
  \/ CheckAfterPhase1
  \/ EnterPhase2
  \/ SchedulePhase2
  \/ EnterPhase3
  \/ CheckBeforePhase3
  \/ CallLongTerm
  \/ \E outcome \in GeneratorOutcomes : LongTermReturns(outcome)
  \/ EnterPhase4
  \/ CallAlignment
  \/ \E outcome \in GeneratorOutcomes : AlignmentReturns(outcome)
  \/ CallFinal
  \/ \E outcome \in GeneratorOutcomes : FinalReturns(outcome)
  \/ StoreFails
  \/ HandleError
  \/ Finish
  \/ Stop

Init == InitPredict /\ NoPipeline

Spec == Init /\ [][NextPredict]_vars

InitAnalysis == InitPipeline /\ NoPredict

SpecPipeline == InitAnalysis /\ [][NextPipeline]_vars

\* ------------------------------------- runs that saturate the limiter

\* the most target years of such a run
FanOutYears == 5

\* the most phase-1 tasks of such a run
FanOutTasks == 6

\* an analysis of every expert whose phase 1 holds more tasks than the limiter
\* runs at once, or one after the last expert was deleted whose phase 2 does.
\* The store is the Map of MemStorage.
InitFanOut ==
  /\ scenario \in Scenarios(FanOutYears)
  /\ experts \in ExpertLists(NumExperts)
  /\ \/ /\ Len(experts) = NumExperts
        /\ Len(targetYears) * Len(experts) > CONCURRENCY
        /\ Len(targetYears) * Len(experts) <= FanOutTasks
     \/ /\ Len(experts) = 0
        /\ Len(targetYears) > CONCURRENCY
  /\ stopPoint = NoValue
  /\ rendered = <<>>
  /\ events = NoEvents
  /\ expertRecords = experts
  /\ store = "memory"
  /\ analysis = CreatedAnalysis
  /\ orch = StartedOrch
  /\ tasks = <<>>
  /\ due = AfterStoreCallAtStart
  /\ stops = 0
  /\ atStop = NoValue
  /\ storeErrors = 0
  /\ generatorErrors = 0
  /\ NoPredict

\* processAnalysis up to the end of phase 2, with no stop request and no store
\* call that throws
NextFanOut ==
  \/ MarkRunning
  \/ CheckBeforePhase1
  \/ SchedulePhase1
  \/ \E i \in DOMAIN tasks, outcome \in GeneratorOutcomes :
       TaskGeneratorReturns(i, outcome)
  \/ \E i \in DOMAIN tasks : TaskAppends(i)
  \/ \E i \in DOMAIN tasks : TaskSettles(i)
  \/ CheckAfterPhase1
  \/ EnterPhase2
  \/ SchedulePhase2
  \/ EnterPhase3

SpecFanOut == InitFanOut /\ [][NextFanOut]_vars

\* every generator call and every store call returns in the end, and a
\* continuation that is due runs
SpecFanOutLive == SpecFanOut /\ WF_vars(NextFanOut)

\* ------------------------------ runs during which experts come and go

\* a run on the database, whose calls leave room for other requests; the
\* Expert records are those that storage.getExperts() found
InitExperts ==
  /\ InitPipeline
  /\ store = "database"
  /\ NoPredict

\* POST /api/experts: storage.createExpert adds a record under a new id
CreateExpert ==
  /\ due = <<>>
  /\ orch.pc # "returned"
  /\ \A k \in DOMAIN expertRecords : expertRecords[k] # NumExperts + 1
  /\ expertRecords' = Append(expertRecords, NumExperts + 1)
  /\ UNCHANGED <<events, rendered, store, scenario, experts, analysis, orch, tasks, due, stops,
                 atStop, stopPoint, storeErrors, generatorErrors>>
  /\ UNCHANGED predictVars

\* DELETE /api/experts/:id: storage.deleteExpert removes the record
DeleteExpert(id) ==
  /\ due = <<>>
  /\ orch.pc # "returned"
  /\ \E k \in DOMAIN expertRecords : expertRecords[k] = id
  /\ expertRecords' = SelectSeq(expertRecords, LAMBDA e : e # id)
  /\ UNCHANGED <<events, rendered, store, scenario, experts, analysis, orch, tasks, due, stops,
                 atStop, stopPoint, storeErrors, generatorErrors>>
  /\ UNCHANGED predictVars

\* processAnalysis without a stop request and without a failing store call,
\* while experts are created and deleted
NextExperts ==
  \/ MarkRunning
  \/ CheckBeforePhase1
  \/ SchedulePhase1
  \/ \E i \in DOMAIN tasks, outcome \in GeneratorOutcomes :
       TaskGeneratorReturns(i, outcome)
  \/ \E i \in DOMAIN tasks : TaskAppends(i)
  \/ \E i \in DOMAIN tasks : TaskSettles(i)
  \/ CheckAfterPhase1
  \/ EnterPhase2
  \/ SchedulePhase2
  \/ EnterPhase3
  \/ CheckBeforePhase3
  \/ CallLongTerm
  \/ \E outcome \in GeneratorOutcomes : LongTermReturns(outcome)
  \/ EnterPhase4
  \/ CallAlignment
  \/ \E outcome \in GeneratorOutcomes : AlignmentReturns(outcome)
  \/ CallFinal
  \/ \E outcome \in GeneratorOutcomes : FinalReturns(outcome)
  \/ Finish
  \/ CreateExpert
  \/ \E id \in 1..(NumExperts + 1) : DeleteExpert(id)

SpecExperts == InitExperts /\ [][NextExperts]_vars

\* ------------------------------------------------ rendering a report

\* how often one set of compiled results is rendered
MaxRenders == 3

\* compiled results of the scenario: the contents of the first two phases
\* differ from year to year, those of the last three are shared
YearResultsOf(byYear, shared) ==
  [y \in Years |->
     [year |-> targetYears[y],
      phases |-> <<[phase |-> 1, analyses |-> <<[expert |-> 1, content |-> byYear[y]]>>],
                   [phase |-> 2, content |-> byYear[y]],
                   [phase |-> 3, content |-> shared],
                   [phase |-> 4, content |-> shared],
                   [phase |-> 5, content |-> shared]>>]]

\* a completed analysis whose compiled results are about to be rendered
InitRender ==
  /\ scenario \in Scenarios(NumYears)
  /\ experts = <<1>>
  /\ stopPoint = NoValue
  /\ rendered = <<>>
  /\ events = NoEvents
  /\ expertRecords = experts
  /\ store = "memory"
  /\ \E byYear \in [Years -> GeneratorOutcomes], shared \in GeneratorOutcomes :
       analysis = [CreatedAnalysis EXCEPT
                     !.status = "completed", !.progress = 100, !.currentPhase = "5",
                     !.results = [years |-> YearResultsOf(byYear, shared)]]
  /\ orch = [StartedOrch EXCEPT !.pc = "returned"]
  /\ tasks = <<>>
  /\ due = <<>>
  /\ stops = 0
  /\ atStop = NoValue
  /\ storeErrors = 0
  /\ generatorErrors = 0
  /\ NoPredict

\* generateMarkdownReportMultiYear is applied to the compiled results
RenderReport ==
  /\ Len(rendered) < MaxRenders
  /\ rendered' = Append(rendered,
                        [at |-> now,
                         text |-> generateMarkdownReportMultiYear(
                                    targetYears, analysis.results.years, now)])
  /\ UNCHANGED <<events, expertRecords, store, scenario, experts, analysis, orch, tasks, due,
                 stops, atStop, stopPoint, storeErrors, generatorErrors>>
  /\ UNCHANGED predictVars

\* half a day passes
HalfDayPasses ==
  /\ ticks < MaxTicks
  /\ now' = now + DAY_MS \div 2
  /\ ticks' = ticks + 1
  /\ UNCHANGED <<predictionCache, inflightRequests, circuitBreaker, callers, requests,
                 microtasks, upstreamCalls, lastReturn, breakerReset, input>>
  /\ UNCHANGED pipelineVars

NextRender == RenderReport \/ HalfDayPasses

SpecRender == InitRender /\ [][NextRender]_vars

\* --------------------------------------------- the predict endpoint

\* x?.trim() of a field that may be missing
TrimmedField(prediction, f) ==
  IF f \in DOMAIN prediction THEN trim(prediction[f]) ELSE <<>>

\* x && x.length > 0 of a field that may be missing
NonEmptyArray(prediction, f) ==
  f \in DOMAIN prediction /\ Len(prediction[f]) > 0

\* "Check if prediction contains actual content (not just empty defaults)"
hasContent(prediction) ==
  \/ TrimmedField(prediction, "role") # <<>>
  \/ TrimmedField(prediction, "specialization") # <<>>
  \/ NonEmptyArray(prediction, "subSpecializations")
  \/ NonEmptyArray(prediction, "informationSources")
  \/ TrimmedField(prediction, "researchFocus") # <<>>

\* the fields of interface ExpertPrediction
ExpertPredictionFields ==
  {"role", "specialization", "expertiseLevel", "subSpecializations",
   "informationSources", "researchFocus"}

IsExpertPrediction(value) == DOMAIN value = ExpertPredictionFields

\* the upstream calls that are outstanding
Outstanding == {r \in Callers : Pending(r)}

\* caller c awaited the request of caller r before anything else
JoinedRequestOf(c, r) ==
  /\ callers[c].pc \in {"joined", "awaiting"}
  /\ callers[c].existingRequest = r

\* only the first two calls of the run were issued so far
OnlyTwoCallers == \A c \in Callers : c > 2 => callers[c].pc = "idle"

\* ------------------------------------------------------------ claims

\* C1: predictExpertInfo never rejects; for every expert name, every upstream
\* outcome and every prior state of cache, in-flight map and breaker the call
\* resolves with an ExpertPrediction value.
C1_ResolvesWithPrediction ==
  /\ \A c \in Callers : callers[c].pc # "rejected"
  /\ lastReturn # NoReturn =>
       /\ lastReturn.outcome = "fulfilled"
       /\ IsExpertPrediction(lastReturn.result)

\* C2: at every instant and for every expert name at most one upstream call for
\* that name is outstanding, for any number of concurrent callers on the name
\* and whether the shared call succeeds or fails.
C2_OneOutstandingCall ==
  \A expertName \in CallNames :
    Cardinality({r \in Outstanding : requests[r].expertName = expertName}) <= 1

\* C3, as stated: two calls issued on a cold key before either resolves initiate
\* at most one upstream call in total, whatever the outcome of that call.
C3_OneCallWhateverOutcome ==
  (OnlyTwoCallers /\ JoinedRequestOf(2, 1)) => upstreamCalls <= 1

\* C3, amended: of two calls issued on a cold key before either resolves, the
\* second joins the call of the first; if the shared call succeeds it is the only
\* upstream call; if it fails the joining caller makes one further attempt, so
\* at most two upstream calls are initiated in total and never two are
\* outstanding at once.
C3_OneCallUnlessSharedFails ==
  OnlyTwoCallers =>
    /\ Cardinality(Outstanding) <= 1
    /\ upstreamCalls <= 2
    /\ (lastReturn.caller = 2 /\ lastReturn.path = "join") => upstreamCalls = 1
    /\ (callers[1].pc = "awaiting" /\ callers[2].pc # "idle") =>
         (JoinedRequestOf(2, 1) /\ callers[2].pc = "joined" /\ upstreamCalls <= 1)

\* the joining caller retried after the shared call failed
C3_JoinerRetried ==
  /\ OnlyTwoCallers
  /\ JoinedRequestOf(2, 1)
  /\ callers[2].pc = "awaiting"
  /\ Pending(2)
  /\ upstreamCalls = 2

\* C4: for N >= 2 callers that start on the same cold key before the first
\* upstream call settles, at most 2 upstream calls are initiated in total: the
\* shared one and, if it fails, one further attempt by a single caller.
C4_AtMostTwoCalls ==
  (\A c \in Callers \ {1} : callers[c].pc = "idle" \/ JoinedRequestOf(c, 1)) =>
    upstreamCalls <= 2

\* the step is the call of predictExpertInfo by caller c, up to its first await
\* or its return
Starts(c) == callers[c].pc = "idle" /\ callers'[c].pc # "idle"

\* C5: a cache entry younger than 15 minutes is returned as it is and no
\* upstream call is initiated; an entry older than 15 minutes is removed by the
\* lookup and the call goes on to the in-flight, breaker and upstream steps as
\* for a cold key.
C5_CachedUntilExpiry ==
  [][\A c \in Callers :
       (Starts(c) /\ input \in DOMAIN predictionCache) =>
         LET entry == predictionCache[input]
             age == now - entry.timestamp
         IN /\ age < CACHE_TTL =>
                 /\ callers'[c].pc = "returned"
                 /\ lastReturn'.caller = c
                 /\ lastReturn'.path = "cache"
                 /\ lastReturn'.result = entry.data
                 /\ upstreamCalls' = upstreamCalls
                 /\ predictionCache' = predictionCache
            /\ age > CACHE_TTL =>
                 /\ lastReturn'.path # "cache"
                 /\ callers'[c].pc \in {"joined", "awaiting"} \/ lastReturn'.path = "breaker"
                 /\ \/ input \notin DOMAIN predictionCache'
                    \/ predictionCache'[input].timestamp = now]_predictVars

\* a call was answered from the cache, by an entry made after an older entry
\* had expired and was removed
C5_HitAfterExpiry ==
  /\ lastReturn.path = "cache"
  /\ lastReturn.expertName \in DOMAIN predictionCache
  /\ predictionCache[lastReturn.expertName].timestamp > CACHE_TTL
  /\ lastReturn.result = predictionCache[lastReturn.expertName].data

\* the breaker of the name is open and its last failure is at most the timeout
\* before t
OpenAt(expertName, t) ==
  /\ expertName \in DOMAIN circuitBreaker
  /\ circuitBreaker[expertName].failureCount >= FAILURE_THRESHOLD
  /\ t - circuitBreaker[expertName].lastFailureTime <= CIRCUIT_BREAKER_TIMEOUT

\* the breaker of the name is open and its last failure is more than the
\* timeout ago
OpenAndTimedOut(expertName) ==
  /\ expertName \in DOMAIN circuitBreaker
  /\ circuitBreaker[expertName].isOpen
  /\ now - circuitBreaker[expertName].lastFailureTime > CIRCUIT_BREAKER_TIMEOUT

\* C6: after 2 qualifying failures were recorded for a name, every call for it
\* made within 10 seconds of the last of them completes without initiating an
\* upstream call and returns the fallback prediction synthesised from the name.
\* (A call that ends now began after the last failure when it was answered from
\* the cache, which takes no time, or began later than the failure.)
C6_FallbackWhileOpen ==
  LET expertName == lastReturn.expertName
      began == now - lastReturn.elapsed
  IN (/\ lastReturn # NoReturn
      /\ OpenAt(expertName, began)
      /\ \/ lastReturn.path = "cache"
         \/ began > circuitBreaker[expertName].lastFailureTime) =>
       /\ lastReturn.path \in {"cache", "join", "breaker"}
       /\ lastReturn.result = FallbackOf[expertName]

\* C7, as stated: once more than 10 seconds have passed since the failure that
\* opened the breaker, the next call for the name resets the breaker and
\* initiates an upstream call instead of returning a stored or synthesised
\* fallback.
C7_NextCallResets ==
  [][\A c \in Callers :
       (Starts(c) /\ OpenAndTimedOut(input)) =>
         /\ breakerReset'
         /\ input \notin DOMAIN circuitBreaker'
         /\ upstreamCalls' = upstreamCalls + 1]_predictVars

\* C7, amended: once more than 10 seconds have passed since the failure that
\* opened the breaker, the next call for the name that finds no unexpired cache
\* entry (the fallback cached at the failure is served for 15 minutes) resets
\* the breaker and initiates an upstream call.
C7_NextUncachedCallResets ==
  [][\A c \in Callers :
       (/\ Starts(c)
        /\ OpenAndTimedOut(input)
        /\ ~getCachedPrediction(predictionCache, input, now).hit) =>
         /\ breakerReset'
         /\ input \notin DOMAIN circuitBreaker'
         /\ upstreamCalls' = upstreamCalls + 1
         /\ callers'[c].pc = "awaiting"
         /\ Pending(c)']_predictVars

\* a call has just reset the breaker and awaits its own upstream call
C7_ResetAndCalled ==
  /\ breakerReset
  /\ \E c \in Callers :
       /\ callers[c].pc = "awaiting"
       /\ callers[c].startTime = now
       /\ Pending(c)
       /\ callers[c].expertName \notin DOMAIN circuitBreaker

\* C8: every value predictExpertInfo returns, on every path, has usable content
\* (it is never the all-empty structure), so the endpoint's NO_CONTENT outcome
\* never follows an upstream success.
C8_UsableContent ==
  lastReturn # NoReturn => hasContent(lastReturn.result)

\* C9: every call resolves no later than the hard deadline after its own start
\* time, given that the upstream call rejects as soon as its abort signal fires;
\* also a caller that joined another's call, saw it fail and made its own attempt.
C9_WithinHardDeadline ==
  /\ lastReturn # NoReturn => lastReturn.elapsed <= HARD_DEADLINE
  /\ \A c \in Callers :
       callers[c].pc \in {"joined", "awaiting"} => now - callers[c].startTime <= HARD_DEADLINE

\* a caller that joined a call that failed has its own attempt outstanding at
\* the moment its abort timer is due, later than its own start but within its
\* deadline
C9_JoinerAtItsDeadline ==
  \E c \in Callers :
    /\ callers[c].existingRequest # 0
    /\ callers[c].pc = "awaiting"
    /\ Pending(c)
    /\ requests[c].issuedAt > callers[c].startTime
    /\ now = requests[c].abortAt
    /\ now - callers[c].startTime = HARD_DEADLINE - ABORT_BUFFER

\* C10: after a stop request has set the Analysis to status stopped, the
\* orchestrator changes no field of the record again, at whatever point of
\* processAnalysis the stop arrives: status, progress, currentPhase,
\* partialResults, results and markdownReport keep the values they had when the
\* stop was recorded.
C10_NothingWrittenAfterStop ==
  atStop # NoValue => analysis = atStop

\* the last stop request was recorded after the join over the phase-1 tasks and
\* before the phase-2 tasks were scheduled: while processAnalysis awaited the
\* status check that follows phase 1, or the progress update that follows it
StoppedBetweenPhases1And2 ==
  /\ stopPoint # NoValue
  /\ stopPoint.pc \in {"checkAfter1", "enter2"}

\* C11: when a stop request is recorded after all phase-1 tasks have settled and
\* before phase 2 is scheduled, the Analysis stays in status stopped, no phase-2
\* task is started and progress and currentPhase are not written after the stop.
C11_StoppedBeforePhase2 ==
  StoppedBetweenPhases1And2 =>
    /\ analysis.status = "stopped"
    /\ analysis.progress = atStop.progress
    /\ analysis.currentPhase = atStop.currentPhase
    /\ \A i \in DOMAIN tasks : tasks[i].phase # 2

\* C12: once the Analysis has status completed or failed no later operation
\* changes any field of the record: a stop request received after completion or
\* failure leaves it as it is, and processAnalysis writes nothing after its
\* final completed or failed update.
C12_TerminalIsFinal ==
  [][analysis.status \in {"completed", "failed"} => analysis' = analysis]_pipelineVars

\* C13: over the lifetime of one Analysis record, under every interleaving of
\* the writes of processAnalysis and stop requests, the stored progress never
\* decreases from one write to the next and is always within 0..100.
C13_ProgressNeverDecreases ==
  [][/\ analysis'.progress >= analysis.progress
     /\ analysis'.progress \in 0..100]_pipelineVars

\* the pc of processAnalysis while its own generator call of phase n is
\* outstanding (phases 3 to 5)
CallPc(n) == IF n = 3 THEN "phase3" ELSE IF n = 4 THEN "phase4" ELSE "phase5"

\* the step issues a generator call of phase n: a limiter task of the phase
\* starts (phases 1 and 2), or processAnalysis makes the call itself
IssuesCallOfPhase(n) ==
  IF n <= 2
  THEN \E i \in DOMAIN tasks' :
         /\ tasks'[i].phase = n
         /\ tasks'[i].state = "calling"
         /\ ~(i \in DOMAIN tasks /\ tasks[i].phase = n /\ tasks[i].state # "queued")
  ELSE orch'.pc = CallPc(n) /\ orch.pc # CallPc(n)

\* no limiter task and no generator call of a phase before n is unsettled
EarlierPhasesSettled(n) ==
  /\ \A i \in DOMAIN tasks : tasks[i].phase < n => tasks[i].state = "settled"
  /\ \A k \in 3..5 : k < n => orch.pc # CallPc(k)

\* C14: within one run no generator call of phase N (2..5) is issued before
\* every generator call and limiter task of phase N-1 has settled.
C14_PhasesDoNotOverlap ==
  [][\A n \in 2..5 : IssuesCallOfPhase(n) => EarlierPhasesSettled(n)]_pipelineVars

\* the generator call of phase 5 is outstanding in a run that had four phase-1
\* tasks and two phase-2 tasks
C14_AllPhasesIssued ==
  /\ orch.pc = "phase5"
  /\ Len(experts) = 2
  /\ Len(targetYears) = 2
  /\ \A y \in Years : Len(orch.expertAnalysesByYear[y]) = 2
  /\ \A y \in Years : orch.scenariosByYear[y] \in GeneratorOutcomes
  /\ orch.strategicAlignment \in GeneratorOutcomes

\* C15: for target years Y and the expert list E read at the start,
\* phase 1 creates exactly |Y| x |E| tasks, one per (expert, year) pair; after
\* the join the results are grouped into exactly |Y| buckets, one per target
\* year, each with at most |E| entries, and every entry of the bucket of year y
\* was produced by a task tagged with year y, whatever the order of completion.
C15_OneTaskPerPairGroupedByYear ==
  /\ orch.pc \in {"join1", "checkAfter1"} =>
        /\ Len(tasks) = Len(targetYears) * Len(experts)
        /\ \A y \in Years, e \in Experts :
             Cardinality({i \in DOMAIN tasks :
                            /\ tasks[i].phase = 1
                            /\ tasks[i].year = y
                            /\ tasks[i].expert = e}) = 1
  /\ orch.pc = "checkAfter1" =>
        /\ DOMAIN orch.expertAnalysesByYear = Years
        /\ \A y \in Years :
             LET bucket == orch.expertAnalysesByYear[y]
             IN /\ Len(bucket) <= Len(experts)
                /\ \A j, k \in DOMAIN bucket : bucket[j].expert = bucket[k].expert => j = k
                /\ \A k \in DOMAIN bucket :
                     \E i \in DOMAIN tasks :
                       /\ targetYears[tasks[i].year] = targetYears[y]
                       /\ tasks[i].expert = bucket[k].expert
                       /\ tasks[i].content = bucket[k].content

\* C15 for years that differ: when no year occurs twice in targetYears, phase 1
\* creates exactly |Y| x |E| tasks, one per (expert, year) pair, and after the join
\* there is one bucket per target year, each with at most |E| entries, every
\* entry produced by a task tagged with the year of its bucket, whatever the
\* order of completion.
C15_GroupedByYearWhenYearsDiffer ==
  (\A a, b \in Years : targetYears[a] = targetYears[b] => a = b)
    => C15_OneTaskPerPairGroupedByYear

\* the results of four tasks were grouped after a task of the second year had
\* completed first and one of the calls had failed
C15_GroupedAfterLaterYearFirst ==
  /\ orch.pc = "checkAfter1"
  /\ Len(targetYears) = 2
  /\ Len(experts) = 2
  /\ analysis.partialResults # NoValue
  /\ Len(analysis.partialResults.expertAnalyses) > 0
  /\ analysis.partialResults.expertAnalyses[1].year = targetYears[2]
  /\ \E k \in 1..2 : orch.expertAnalysesByYear[1][k].content = "errorText"

\* C16: when exactly one phase-1 (expert, year) task fails because its generator
\* call errors and the analysis is never stopped, the Analysis still reaches
\* status completed, and in the compiled results the phase-1 analyses of that
\* task's year hold one entry fewer than there are experts, while the lists of
\* the other years are complete.
C16_FailedTaskLeavesListShort ==
  (/\ analysis.status = "completed"
   /\ stops = 0
   /\ \E y \in Years :
        \E k \in DOMAIN orch.expertAnalysesByYear[y] :
          orch.expertAnalysesByYear[y][k].content = "errorText") =>
    \A y \in Years :
      LET analyses == analysis.results.years[y].phases[1].analyses
          failed == {k \in DOMAIN orch.expertAnalysesByYear[y] :
                       orch.expertAnalysesByYear[y][k].content = "errorText"}
      IN Len(analyses) = Len(experts) - Cardinality(failed)

\* C17: during the phase-1 and phase-2 fan-outs of one run at no instant more
\* than 4 limiter tasks are running, and so never more than 4 generator calls of
\* the analysis are outstanding, for any number of (expert, year) pairs and
\* any pattern of task failures.
C17_AtMostFourRunning ==
  /\ Cardinality({i \in DOMAIN tasks : tasks[i].state \in {"calling", "read", "written"}})
       <= CONCURRENCY
  /\ Cardinality({i \in DOMAIN tasks : tasks[i].state = "calling"}) <= CONCURRENCY

\* phase 2 of a five-year scenario: four generator calls are outstanding and the
\* fifth task waits in the queue
C17_SaturatedInPhase2 ==
  /\ Len(tasks) = 5
  /\ \A i \in DOMAIN tasks : tasks[i].phase = 2
  /\ Cardinality({i \in DOMAIN tasks : tasks[i].state = "calling"}) = CONCURRENCY
  /\ tasks[5].state = "queued"

\* C18: when the limiter is saturated, queued tasks are admitted strictly in
\* submission order: a task submitted earlier never starts after one submitted
\* later, so the phase-1 tasks start in the order in which they were created,
\* year-major and expert-minor.
C18_AdmittedInSubmissionOrder ==
  /\ \A i, j \in DOMAIN tasks :
       (i < j /\ tasks[j].state # "queued") => tasks[i].state # "queued"
  /\ \A i, j \in DOMAIN tasks :
       (i < j /\ tasks[i].phase = 1 /\ tasks[j].phase = 1) =>
         \/ tasks[i].year < tasks[j].year
         \/ tasks[i].year = tasks[j].year /\ tasks[i].expert < tasks[j].expert

\* six phase-1 tasks: one of the first four has settled, the fifth has taken
\* its slot, the sixth still waits
C18_FifthBeforeSixth ==
  /\ Len(tasks) = 6
  /\ tasks[1].phase = 1
  /\ \E i \in 1..4 : tasks[i].state = "settled"
  /\ tasks[5].state = "calling"
  /\ tasks[6].state = "queued"

\* C19: a limiter slot is released whenever its task settles; given that every
\* generator call and every store call returns in the end, every submitted
\* phase-1 and phase-2 task starts and settles and both joins complete, for
\* more tasks than the concurrency 4 and with failing tasks: once the tasks of
\* a phase are submitted, its join is past in the end with each of them settled.
C19_EveryTaskSettles ==
  /\ (orch.pc = "join1") ~>
       (orch.pc = "checkAfter1" /\ \A i \in DOMAIN tasks : tasks[i].phase = 1 /\ tasks[i].state = "settled")
  /\ (orch.pc = "join2") ~>
       (orch.pc = "enter3" /\ \A i \in DOMAIN tasks : tasks[i].phase = 2 /\ tasks[i].state = "settled")

\* the join of phase 2 has completed over five tasks, one of which failed
C19_JoinOverFiveWithFailure ==
  /\ orch.pc = "enter3"
  /\ Len(tasks) = 5
  /\ \A i \in DOMAIN tasks : tasks[i].phase = 2 /\ tasks[i].state = "settled"
  /\ \E i \in DOMAIN tasks : tasks[i].content = "errorText"

C21_FinalUpdateCompilesPerYear ==
  [][orch.pc = "phase5" /\ orch'.pc = "final" =>
       /\ analysis'.status = "completed"
       /\ analysis'.progress = 100
       /\ analysis'.currentPhase = "5"
       /\ LET years == analysis'.results.years
          IN /\ DOMAIN years = Years
             /\ \A y \in Years :
                  /\ years[y].year = targetYears[y]
                  /\ Len(years[y].phases) = 5
                  /\ \A k \in 1..5 : years[y].phases[k].phase = k
                  /\ years[y].phases[1].analyses = orch.expertAnalysesByYear[y]
                  /\ years[y].phases[2].content = orch.scenariosByYear[y]
                  /\ years[y].phases[3].content = orch.longTermPerspective
                  /\ years[y].phases[4].content = orch.strategicAlignment
             /\ \A y, z \in Years, k \in 3..5 :
                  years[y].phases[k].content = years[z].phases[k].content]_pipelineVars

\* a run over two years that ended without stop or error: the two years have
\* different phase-2 contents and share the content of phase 3
C21_CompletedWithYearsThatDiffer ==
  /\ orch.pc = "final"
  /\ stops = 0
  /\ storeErrors = 0
  /\ analysis.status = "completed"
  /\ Len(targetYears) = 2
  /\ Len(experts) = 2
  /\ analysis.results.years[1].phases[2].content # analysis.results.years[2].phases[2].content
  /\ analysis.results.years[1].phases[3].content = analysis.results.years[2].phases[3].content

\* C22: once a stop request has been recorded and the phase that was running
\* at that moment has settled, no generator call of a later phase is issued:
\* for every k in 2..5, if the record is already stopped when phase k-1
\* settles, no phase-k generator call is made. A step that issues a call of
\* phase k finds the record not stopped, or stopped by a request that arrived
\* only after phase k-1 had settled.
C22_NoCallOfNextPhaseAfterStop ==
  [][\A k \in 2..5 :
       IssuesCallOfPhase(k) /\ analysis.status = "stopped" =>
         LET afterSettled ==
               IF k = 2 THEN {"checkAfter1", "enter2"}
               ELSE IF k = 3 THEN {"enter3", "checkBefore3"}
               ELSE IF k = 4 THEN {"checkAfter3", "enter4"}
               ELSE {"enter5"}
         IN \/ stopPoint.pc \in afterSettled
            \/ stopPoint.pc \in {"join1", "join2"} /\ stopPoint.settled]_pipelineVars

C24_RunUsesExpertsReadAtStart ==
  /\ \A i \in DOMAIN tasks :
       tasks[i].phase = 1 =>
         /\ Len(tasks) = Len(targetYears) * Len(experts)
         /\ tasks[i].expert \in Experts
  /\ analysis.status = "completed" =>
       \A y \in DOMAIN analysis.results.years :
         LET analyses == analysis.results.years[y].phases[1].analyses
         IN {analyses[k].expert : k \in DOMAIN analyses} = Experts

\* a run over two experts has completed; while it ran, both were deleted and
\* another one was created
C24_CompletedAfterExpertsChanged ==
  /\ analysis.status = "completed"
  /\ experts = <<1, 2>>
  /\ expertRecords = <<NumExperts + 1>>

\* C25: every upstream prediction failure of a qualifying kind (rate limit,
\* quota exhaustion, timeout, network error, cancellation of the call by the
\* abort signal of the hard deadline) increments the failure count of the
\* breaker of its key and sets lastFailureTime, and the breaker is open exactly
\* from the second such failure on.
C25_QualifyingFailuresMoveBreaker ==
  [][\A c \in Callers :
       LET expertName == callers[c].expertName
           before == IF expertName \in DOMAIN circuitBreaker
                     THEN circuitBreaker[expertName].failureCount ELSE 0
       IN (/\ microtasks # <<>>
           /\ Head(microtasks) = c
           /\ callers[c].pc = "awaiting"
           /\ requests[c].state = "rejected"
           /\ requests[c].error \in {"rate_limit", "quota", "socket_timeout", "sdk_timeout",
                                      "network", "aborted"}
           /\ callers'[c].pc = "returned")
          => /\ expertName \in DOMAIN circuitBreaker'
             /\ circuitBreaker'[expertName].failureCount = before + 1
             /\ circuitBreaker'[expertName].lastFailureTime = now
             /\ circuitBreaker'[expertName].isOpen = (before + 1 >= 2)]_predictVars

C27_CacheHitChangesNothing ==
  [][\A c \in Callers :
       (/\ callers[c].pc = "idle"
        /\ callers'[c].pc = "returned"
        /\ lastReturn'.caller = c
        /\ lastReturn'.path = "cache")
       => /\ predictionCache' = predictionCache
          /\ inflightRequests' = inflightRequests
          /\ circuitBreaker' = circuitBreaker
          /\ requests' = requests
          /\ upstreamCalls' = upstreamCalls]_predictVars

\* a call was answered from the cache while the breaker of its key was open
\* and past its reset time
C27_CacheHitUnderExpiredOpenBreaker ==
  /\ lastReturn.path = "cache"
  /\ lastReturn.expertName \in DOMAIN circuitBreaker
  /\ circuitBreaker[lastReturn.expertName].isOpen
  /\ now - circuitBreaker[lastReturn.expertName].lastFailureTime > CIRCUIT_BREAKER_TIMEOUT

\* C28: in the bounded-deadline step, with remaining = 10 000 ms minus the
\* time elapsed since the caller's own start: when remaining <= 100 no upstream
\* call is initiated and the caller returns the fallback; otherwise exactly one
\* upstream call is initiated whose abort timer is set to min(remaining - 50,
\* 10 000) ms after the call is issued, a delay that is positive and at most
\* 9 950 ms.
C28_DeadlineBoundsTheCall ==
  [][\A c \in Callers :
       LET remaining == 10000 - (now - callers'[c].startTime)
           delay == requests'[c].abortAt - requests'[c].issuedAt
       IN /\ (callers[c].pc # "awaiting" /\ callers'[c].pc = "awaiting")
             => IF remaining <= 100
                THEN /\ upstreamCalls' = upstreamCalls
                     /\ requests'[c].state = "rejected"
                     /\ requests'[c].error = "deadline"
                     /\ microtasks' # <<>>
                     /\ microtasks'[Len(microtasks')] = c
                ELSE /\ upstreamCalls' = upstreamCalls + 1
                     /\ requests'[c].state = "pending"
                     /\ requests'[c].issuedAt = now
                     /\ delay = Min(remaining - 50, 10000)
                     /\ delay > 0
                     /\ delay <= 9950
          /\ (/\ callers[c].pc = "awaiting"
              /\ requests[c].state = "rejected"
              /\ requests[c].error = "deadline"
              /\ callers'[c].pc = "returned")
             => /\ upstreamCalls' = upstreamCalls
                /\ lastReturn'.caller = c
                /\ lastReturn'.result = FallbackOf[callers[c].expertName]]_predictVars

\* one caller found its deadline expired before the call and is about to
\* return the fallback, while the call of another, issued part of the way
\* through its own ten seconds, is pending with the shorter abort delay
C28_ExpiredAndShortenedDeadline ==
  \E b, e \in Callers :
    /\ callers[b].pc = "awaiting"
    /\ requests[b].state = "rejected"
    /\ requests[b].error = "deadline"
    /\ callers[e].pc = "awaiting"
    /\ requests[e].state = "pending"
    /\ requests[e].abortAt - requests[e].issuedAt > 0
    /\ requests[e].abortAt - requests[e].issuedAt < 9950

\* C29: when a shared upstream call for a key succeeds, the caller that issued
\* it and every caller that joined it while it was in flight return the
\* identical prediction, the value of that one call, and that prediction is the
\* value stored in the cache for the key when each of them returns.
C29_SharedSuccessIsOneCachedValue ==
  [][\A c \in Callers :
       LET r == Awaited(c)
           expertName == callers[c].expertName
       IN /\ (/\ callers[c].pc \in {"awaiting", "joined"}
              /\ requests[r].state = "fulfilled"
              /\ callers'[c].pc = "returned")
             => /\ lastReturn'.caller = c
                /\ lastReturn'.path \in {"success", "join"}
                /\ lastReturn'.result = requests[r].value
                /\ expertName \in DOMAIN predictionCache'
                /\ predictionCache'[expertName].data = requests[r].value
          /\ (requests[c].state = "fulfilled" /\ requests'[c].state = "fulfilled")
             => requests'[c].value = requests[c].value]_predictVars

\* three callers have returned after a single upstream call, the last of them
\* through the join: the cache holds what it returned
C29_JoinersReturnedTheCachedValue ==
  /\ lastReturn.path = "join"
  /\ upstreamCalls = 1
  /\ Cardinality({c \in Callers : callers[c].pc = "returned"}) >= 3
  /\ lastReturn.expertName \in DOMAIN predictionCache
  /\ predictionCache[lastReturn.expertName].data = lastReturn.result

\* C30: whenever a predictExpertInfo call for a key returns through upstream
\* success, upstream failure with the fallback, or the open breaker's fallback,
\* the cache holds an entry for the key written at that moment with the
\* 15-minute time to live; an entry stays, with a timestamp that does not go
\* back, until a lookup finds it expired; and a call that starts while the
\* entry is at most 15 minutes old makes no upstream call and records no
\* breaker failure.
C30_ReturnLeavesFifteenMinuteEntry ==
  [][/\ \A c \in Callers :
          (/\ callers[c].pc # "returned"
           /\ callers'[c].pc = "returned"
           /\ lastReturn'.caller = c
           /\ lastReturn'.path \in {"success", "failure", "breaker"})
          => /\ lastReturn'.expertName \in DOMAIN predictionCache'
             /\ predictionCache'[lastReturn'.expertName] =
                  [data |-> lastReturn'.result, timestamp |-> now, ttl |-> 900000]
     /\ \A k \in DOMAIN predictionCache :
          \/ /\ k \in DOMAIN predictionCache'
             /\ predictionCache'[k].timestamp >= predictionCache[k].timestamp
             /\ predictionCache'[k].ttl = 900000
          \/ now - predictionCache[k].timestamp > 900000
     /\ \A c \in Callers :
          (/\ callers[c].pc = "idle"
           /\ callers'[c].pc # "idle"
           /\ input \in DOMAIN predictionCache
           /\ now - predictionCache[input].timestamp <= 900000)
          => /\ callers'[c].pc = "returned"
             /\ lastReturn'.path = "cache"
             /\ lastReturn'.result = predictionCache[input].data
             /\ upstreamCalls' = upstreamCalls
             /\ circuitBreaker' = circuitBreaker
             /\ requests' = requests]_predictVars

\* a call that started exactly 15 minutes after a failed call cached the
\* fallback was answered from the cache
C30_AnsweredFromCacheAtFifteenMinutes ==
  /\ lastReturn.path = "cache"
  /\ lastReturn.expertName \in DOMAIN predictionCache
  /\ now - predictionCache[lastReturn.expertName].timestamp = 900000
  /\ lastReturn.result = FallbackOf[lastReturn.expertName]
  /\ upstreamCalls >= 1

\* C31: a failure of a generator call never makes an analysis fail: the step
\* in which a call of a phase-1 or phase-2 task or the single call of phase 3,
\* 4 or 5 fails does not enter the catch block and the pipeline goes on; a run
\* without stop and without a throwing store call that has ended is completed;
\* status failed is only reached after a store call has thrown.
C31_GeneratorFailureIsAbsorbed ==
  /\ [](analysis.status = "failed" => storeErrors >= 1)
  /\ []((orch.pc = "returned" /\ stops = 0 /\ storeErrors = 0)
          => analysis.status = "completed")
  /\ [][generatorErrors' > generatorErrors
          => /\ orch'.pc \notin {"caught", "handled", "returned"}
             /\ analysis'.status # "failed"
             /\ \/ orch'.pc # orch.pc
                \/ \E i \in DOMAIN tasks :
                     tasks[i].state = "calling" /\ tasks'[i].state = "read"]_vars

\* a run whose final simulation failed has ended completed, without a stop and
\* without a throwing store call
C31_CompletedAfterFailedFinalSimulation ==
  /\ orch.pc = "returned"
  /\ stops = 0
  /\ storeErrors = 0
  /\ generatorErrors = 1
  /\ analysis.status = "completed"
  /\ analysis.results.years[1].phases[5].content = "errorText"

\* C32: when the phase-2 task of a year fails, phase 2 is not aborted: the
\* join completes, the step counter advances by the number of target years,
\* the scenarios of the other years are kept, the failed year has no scenario
\* text among the inputs of phases 4 and 5, and its phase-2 content in the
\* compiled results is the empty string.
C32_FailedYearHasNoScenario ==
  /\ [][(orch.pc = "join2" /\ orch'.pc = "enter3")
          => /\ orch'.currentStep = orch.currentStep + Len(targetYears)
             /\ \A i \in DOMAIN tasks :
                  IF tasks[i].content = "errorText"
                  THEN orch'.scenariosByYear[tasks[i].year] \notin GeneratorOutcomes
                  ELSE orch'.scenariosByYear[tasks[i].year] = tasks[i].content]_vars
  /\ [](analysis.status = "completed"
          => \A y \in Years : analysis.results.years[y].phases[2].content \in {"text", ""})

\* C32, the part that holds when the target years differ: the failure of the
\* phase-2 task of a year leaves the join, the step counter and the scenarios
\* of the other years as they are without the failure.
C32_OtherYearsKeepTheirScenario ==
  [][(/\ orch.pc = "join2"
      /\ orch'.pc = "enter3"
      /\ \A a, b \in Years : targetYears[a] = targetYears[b] => a = b)
     => /\ AllSettled(tasks)
        /\ orch'.currentStep = orch.currentStep + Len(targetYears)
        /\ analysis'.progress = ((1 + Len(targetYears)) * 100) \div (Len(targetYears) + 4)
        /\ \A i \in DOMAIN tasks :
             orch'.scenariosByYear[tasks[i].year] = tasks[i].content]_vars

\* ------------------------------------- the progress values of a run

\* target years of a run whose progress values are followed
MaxProgressYears == 100

\* a run of n target years with the memory storage, before its first store call
InitProgress ==
  /\ scenario \in {[targetYears |-> [y \in 1..n |-> 2020 + 10 * y]] : n \in 1..MaxProgressYears}
  /\ experts = <<>>
  /\ stopPoint = NoValue
  /\ rendered = <<>>
  /\ events = NoEvents
  /\ expertRecords = experts
  /\ store = "memory"
  /\ analysis = CreatedAnalysis
  /\ orch = StartedOrch
  /\ tasks = <<>>
  /\ due = AfterStoreCallAtStart
  /\ stops = 0
  /\ atStop = NoValue
  /\ storeErrors = 0
  /\ generatorErrors = 0
  /\ NoPredict

\* the progress update at the end of a phase, "currentStep++" or
\* "currentStep += targetYears.length" before it; what the phase did in
\* between does not enter the value
ProgressAfter(from, to, steps, currentPhase) ==
  /\ OrchStoreStep(from, to, [orch EXCEPT !.currentStep = @ + steps],
                   PhaseUpdate(orch.currentStep + steps, currentPhase))
  /\ UNCHANGED generatorErrors

\* "Final update", as far as the progress goes
FinalProgress ==
  /\ OrchStoreStep("enter5", "final", [orch EXCEPT !.currentStep = @ + 1],
                   updateAnalysis(analysis, [status |-> "completed", progress |-> 100,
                                             currentPhase |-> "5"]))
  /\ UNCHANGED generatorErrors

NextProgress ==
  \/ MarkRunning
  \/ ProgressAfter("markRunning", "enter2", 1, "2")
  \/ ProgressAfter("enter2", "enter3", Len(targetYears), "3")
  \/ ProgressAfter("enter3", "enter4", 1, "4")
  \/ ProgressAfter("enter4", "enter5", 1, "5")
  \/ FinalProgress

SpecProgress == InitProgress /\ [][NextProgress]_vars

\* the values the orchestrator writes, by the position reached
ProgressValuesAsStated ==
  LET n == Len(targetYears)
  IN /\ orch.pc \in {"getExperts", "markRunning"} => analysis.progress = 0
     /\ orch.pc = "enter2" => analysis.progress = (100 * 1) \div (n + 4)
     /\ orch.pc = "enter3" => analysis.progress = (100 * (1 + n)) \div (n + 4)
     /\ orch.pc = "enter4" => analysis.progress = (100 * (2 + n)) \div (n + 4)
     /\ orch.pc = "enter5" => analysis.progress = (100 * (3 + n)) \div (n + 4)
     /\ orch.pc = "final" => analysis.progress = 100
     /\ analysis.progress \in 0..100

\* C33, as stated: with n target years the progress values written are 0,
\* floor(100*1/(n+4)), floor(100*(1+n)/(n+4)), floor(100*(2+n)/(n+4)),
\* floor(100*(3+n)/(n+4)) and 100, all within 0..100, and for every n >= 1
\* each value written after the first is greater than the one before.
C33_ProgressStrictlyIncreases ==
  /\ []ProgressValuesAsStated
  /\ [][orch.pc # "getExperts" => analysis'.progress > analysis.progress]_vars

\* C33, amended: the values are the stated ones, all within 0..100; the
\* sequence never decreases, and it is strictly increasing when n <= 96.
C33_ProgressNeverDecreasesByArithmetic ==
  /\ []ProgressValuesAsStated
  /\ [][orch.pc # "getExperts"
          => /\ analysis'.progress >= analysis.progress
             /\ Len(targetYears) <= 96 => analysis'.progress > analysis.progress]_vars

\* with 97 target years the value written after phase 1 is 0, as at the start
C33_NoProgressAfterPhase1 ==
  /\ Len(targetYears) = 97
  /\ orch.pc = "enter2"
  /\ orch.currentStep = 1
  /\ analysis.progress = 0

\* C34: every prediction returned by predictExpertInfo has an expertiseLevel
\* among specialist, expert and senior, and subSpecializations and
\* informationSources that are lists; no call surfaces an error.
C34_ReturnedPredictionIsValidated ==
  /\ \A c \in Callers : callers[c].pc # "rejected"
  /\ lastReturn # NoReturn =>
       /\ lastReturn.outcome = "fulfilled"
       /\ "expertiseLevel" \in DOMAIN lastReturn.result
       /\ lastReturn.result.expertiseLevel \in ExpertiseLevels
       /\ \A f \in {"subSpecializations", "informationSources"} :
            /\ f \in DOMAIN lastReturn.result
            /\ DOMAIN lastReturn.result[f] = 1..Len(lastReturn.result[f])

\* C34, the part that holds: the same for every name that is not a property
\* inherited from Object.prototype, and a response with an invalid
\* expertiseLevel and a non-list array field is returned as expert with the
\* empty list.
C34_ValidatedUnlessInheritedName ==
  /\ \A c \in Callers : callers[c].pc # "rejected"
  /\ (lastReturn # NoReturn /\ lastReturn.expertName \notin ObjectPrototypeKeys) =>
       /\ lastReturn.outcome = "fulfilled"
       /\ "expertiseLevel" \in DOMAIN lastReturn.result
       /\ lastReturn.result.expertiseLevel \in ExpertiseLevels
       /\ \A f \in {"subSpecializations", "informationSources"} :
            /\ f \in DOMAIN lastReturn.result
            /\ DOMAIN lastReturn.result[f] = 1..Len(lastReturn.result[f])
  /\ ValidateResponse(JsonDocument("bad_types")).expertiseLevel = "expert"
  /\ ValidateResponse(JsonDocument("bad_types")).subSpecializations = <<>>
  /\ ValidateResponse(JsonDocument("empty")).informationSources = <<>>

\* ------------------------------------- the event stream of a run

\* an analysis whose event stream a client listens to from the start
InitEvents ==
  /\ scenario \in Scenarios(NumYears)
  /\ experts \in ExpertLists(NumExperts)
  /\ stopPoint = NoValue
  /\ rendered = <<>>
  /\ events = [connected |-> TRUE, written |-> <<>>]
  /\ expertRecords = experts
  /\ store \in Stores
  /\ analysis = CreatedAnalysis
  /\ orch = StartedOrch
  /\ tasks = <<>>
  /\ due = AfterStoreCallAtStart
  /\ stops = 0
  /\ atStop = NoValue
  /\ storeErrors = 0
  /\ generatorErrors = 0
  /\ NoPredict

SpecEvents == InitEvents /\ [][NextFanOut]_vars

\* C35: the partial-result events of a fan-out phase are published in the
\* order in which the generator calls complete: the step in which the
\* generator call of a task returns appends one event to the stream, a
\* partial_expert_analysis for a phase-1 task and a partial_year_scenario for a
\* phase-2 task, carrying the year the task was created for, and no other step
\* writes an event; so each task that got its result has exactly one event.
C35_EventsInCompletionOrder ==
  /\ [][/\ \A i \in DOMAIN tasks :
             (tasks[i].state = "calling" /\ i \in DOMAIN tasks' /\ tasks'[i].state = "read")
             => events'.written =
                  Append(events.written,
                         [event |-> IF tasks[i].phase = 1 THEN "partial_expert_analysis"
                                    ELSE "partial_year_scenario",
                          expert |-> tasks[i].expert,
                          year |-> targetYears[tasks[i].year],
                          content |-> tasks'[i].content])
        /\ (\A i \in DOMAIN tasks :
              ~(tasks[i].state = "calling" /\ i \in DOMAIN tasks' /\ tasks'[i].state = "read"))
           => events' = events]_vars
  /\ [](tasks # <<>> =>
          Cardinality({k \in DOMAIN events.written :
                         events.written[k].event =
                           IF tasks[1].phase = 1 THEN "partial_expert_analysis"
                           ELSE "partial_year_scenario"})
            = Cardinality({i \in DOMAIN tasks : tasks[i].state \in {"read", "written", "settled"}}))

\* in both phases the event of a task submitted later came first: the second
\* expert's analysis of the first year before the first expert's, and the
\* second year's scenario before the first year's
C35_LaterTaskPublishedFirst ==
  /\ Len(events.written) = 6
  /\ targetYears[1] # targetYears[2]
  /\ events.written[1].event = "partial_expert_analysis"
  /\ events.written[1].expert = 2
  /\ events.written[1].year = targetYears[1]
  /\ \E k \in 2..4 : events.written[k].expert = 1 /\ events.written[k].year = targetYears[1]
  /\ events.written[5] = [event |-> "partial_year_scenario", expert |-> 0,
                          year |-> targetYears[2], content |-> "text"]
  /\ events.written[6].year = targetYears[1]

\* C36: once the phase-1 fan-out has settled, the stored
\* partialResults.expertAnalyses holds one entry for every phase-1 task: no
\* entry is lost when tasks run updatePartialResults concurrently, the first
\* appends on a record without partialResults included.
C36_NoPartialResultLost ==
  (orch.pc = "join1" /\ tasks # <<>> /\ AllSettled(tasks))
  => /\ analysis.partialResults # NoValue
     /\ Len(analysis.partialResults.expertAnalyses) = Len(tasks)
     /\ \A i \in DOMAIN tasks :
          \E k \in DOMAIN analysis.partialResults.expertAnalyses :
            analysis.partialResults.expertAnalyses[k] = PartialEntry(tasks[i])

\* C36, the part that holds: the same with the Map of MemStorage, whose calls
\* complete within the turn of the task that makes them.
C36_NoPartialResultLostInMemory ==
  (store = "memory" /\ orch.pc = "join1" /\ tasks # <<>> /\ AllSettled(tasks))
  => /\ analysis.partialResults # NoValue
     /\ Len(analysis.partialResults.expertAnalyses) = Len(tasks)
     /\ \A i \in DOMAIN tasks :
          \E k \in DOMAIN analysis.partialResults.expertAnalyses :
            analysis.partialResults.expertAnalyses[k] = PartialEntry(tasks[i])

\* C37: every entry of the circuit-breaker map has failureCount >= 1 and is
\* open exactly when failureCount >= 2; an entry is created or incremented, by
\* one, only in the catch of a call that failed with a counted error (rate
\* limit, quota, timeout); it is removed only when it is open and more than
\* 10 s old, by a call that got past the cache and the in-flight map; its
\* count never goes down while it stays, a success leaves the map alone, and a
\* closed entry is never removed, so the second counted failure opens it
\* however late it comes.
C37_BreakerEntriesCountFailures ==
  /\ [](\A k \in DOMAIN circuitBreaker :
          /\ circuitBreaker[k].failureCount >= 1
          /\ circuitBreaker[k].isOpen = (circuitBreaker[k].failureCount >= 2))
  /\ [][/\ \A k \in DOMAIN circuitBreaker' :
             LET before == IF k \in DOMAIN circuitBreaker
                           THEN circuitBreaker[k].failureCount ELSE 0
             IN /\ circuitBreaker'[k].failureCount >= before
                /\ circuitBreaker'[k].failureCount # before
                   => /\ circuitBreaker'[k].failureCount = before + 1
                      /\ \E c \in Callers :
                           /\ microtasks # <<>>
                           /\ Head(microtasks) = c
                           /\ callers[c].pc = "awaiting"
                           /\ callers[c].expertName = k
                           /\ requests[c].state = "rejected"
                           /\ requests[c].error \in
                                {"rate_limit", "quota", "socket_timeout", "sdk_timeout", "gateway"}
                           /\ callers'[c].pc = "returned"
        /\ \A k \in DOMAIN circuitBreaker \ DOMAIN circuitBreaker' :
             /\ circuitBreaker[k].isOpen
             /\ now - circuitBreaker[k].lastFailureTime > 10000
             /\ \E c \in Callers :
                  /\ callers[c].pc \in {"idle", "joined"}
                  /\ callers'[c].pc \in {"awaiting", "returned"}
                  /\ callers[c].pc = "idle"
                     => /\ ~getCachedPrediction(predictionCache, k, now).hit
                        /\ k \notin DOMAIN inflightRequests
                  /\ lastReturn'.path \notin {"cache", "join"}
        /\ (\E c \in Callers : requests[c].state = "fulfilled" /\ callers'[c] # callers[c])
           => circuitBreaker' = circuitBreaker]_predictVars

\* the first counted failure was followed by the second more than 15 minutes
\* later, and the breaker is open
C37_OpenedByFailuresFarApart ==
  \E k \in DOMAIN circuitBreaker :
    /\ circuitBreaker[k].failureCount = 2
    /\ circuitBreaker[k].isOpen
    /\ circuitBreaker[k].lastFailureTime > 900000

\* C38: between turns the in-flight map holds an entry for a key exactly while
\* an upstream call for the key that a caller registered is outstanding: the
\* entry is there for the whole duration of every such call, it is gone once
\* the call has settled, and once all calls have returned the map is empty.
C38_InflightEntryWhileOutstanding ==
  microtasks = <<>> =>
    /\ \A k \in CallNames :
         k \in DOMAIN inflightRequests <=> \E r \in Outstanding : requests[r].expertName = k
    /\ (\A c \in Callers : callers[c].pc \in Finished) => inflightRequests = EmptyMap

\* C38, the part that holds: between turns an entry of the map is the promise
\* of an outstanding call for its key, and once all calls have returned the
\* map is empty.
C38_NoStaleInflightEntry ==
  microtasks = <<>> =>
    /\ \A k \in DOMAIN inflightRequests :
         /\ inflightRequests[k] \in Outstanding
         /\ requests[inflightRequests[k]].expertName = k
    /\ (\A c \in Callers : callers[c].pc \in Finished) => inflightRequests = EmptyMap

\* C39: processAnalysis never returns leaving the analysis in status running:
\* when it has ended, by returning or by rejecting, the status is completed,
\* failed or stopped.
C39_EndsWithTerminalStatus ==
  orch.pc = "returned" => analysis.status \in {"completed", "failed", "stopped"}

\* C39, the part that holds: processAnalysis ends with the analysis still
\* running only when the store call of its catch block has thrown.
C39_RunningOnlyAfterFailedFailureUpdate ==
  (orch.pc = "returned" /\ storeErrors < 2) =>
    analysis.status \in {"completed", "failed", "stopped"}

\* C40: the compiled results depend on the outcomes of the tasks only, not on
\* the order in which the tasks complete. The join of phase 1 gives every year
\* the analyses of the tasks of that year in submission order (the order of the
\* expert list), the join of phase 2 gives it the scenario of its year task,
\* nothing changes the two between the joins and the compilation, and the
\* compilation puts them in results.years; in a completed analysis every year
\* bucket lists the experts in the order of the expert list, each with the
\* content its task came to, whatever the completion order was.
C40_ResultsIndependentOfCompletionOrder ==
  /\ [][orch.pc = "join1" /\ orch'.pc = "checkAfter1" =>
          \A y \in Years :
            LET idx == {i \in DOMAIN tasks : targetYears[tasks[i].year] = targetYears[y]}
                nth(k) == CHOOSE i \in idx : Cardinality({j \in idx : j < i}) = k - 1
            IN orch'.expertAnalysesByYear[y] =
                 [k \in 1..Cardinality(idx) |->
                    [expert |-> tasks[nth(k)].expert, content |-> tasks[nth(k)].content]]]_pipelineVars
  /\ [][orch.pc = "join2" /\ orch'.pc = "enter3" =>
          \A y \in Years :
            \E i \in DOMAIN tasks :
              /\ targetYears[tasks[i].year] = targetYears[y]
              /\ \A j \in DOMAIN tasks : j > i => targetYears[tasks[j].year] # targetYears[y]
              /\ orch'.scenariosByYear[y] = tasks[i].content]_pipelineVars
  /\ [][/\ orch'.pc \notin {"checkAfter1", "caught", "returned"} =>
             orch'.expertAnalysesByYear = orch.expertAnalysesByYear
        /\ orch'.pc \notin {"enter3", "caught", "returned"} =>
             orch'.scenariosByYear = orch.scenariosByYear]_pipelineVars
  /\ [][orch.pc = "phase5" /\ orch'.pc = "final" =>
          /\ DOMAIN analysis'.results.years = Years
          /\ \A y \in Years :
               LET compiled == analysis'.results.years[y]
               IN /\ compiled.year = targetYears[y]
                  /\ compiled.phases[1].analyses = orch.expertAnalysesByYear[y]
                  /\ compiled.phases[2].content = orch.scenariosByYear[y]
                  /\ compiled.phases[3].content = orch.longTermPerspective
                  /\ compiled.phases[4].content = orch.strategicAlignment
                  /\ compiled.phases[5].content \in GeneratorOutcomes]_pipelineVars
  /\ [](analysis.status = "completed" =>
          \A y \in Years :
            LET analyses == analysis.results.years[y].phases[1].analyses
                sameYear == Cardinality({z \in Years : targetYears[z] = targetYears[y]})
            IN /\ Len(analyses) = Len(experts) * sameYear
               /\ sameYear = 1 =>
                    /\ \A k \in Experts : analyses[k].expert = experts[k]
                    /\ store = "memory" =>
                         /\ \A k \in Experts :
                              \E n \in DOMAIN analysis.partialResults.expertAnalyses :
                                analysis.partialResults.expertAnalyses[n] =
                                  [expert |-> experts[k], year |-> targetYears[y],
                                   content |-> analyses[k].content]
                         /\ \E n \in DOMAIN analysis.partialResults.yearScenarios :
                              analysis.partialResults.yearScenarios[n] =
                                [year |-> targetYears[y],
                                 content |-> analysis.results.years[y].phases[2].content])

\* a completed analysis whose tasks completed in another order than they were
\* submitted in: the analysis of the second expert was persisted first, and the
\* year bucket lists the first expert first, with the content of each task
C40_CompiledInSubmissionOrder ==
  /\ analysis.status = "completed"
  /\ orch.pc = "returned"
  /\ Len(experts) = 2
  /\ analysis.partialResults.expertAnalyses[1].expert = experts[2]
  /\ analysis.partialResults.expertAnalyses[1].content = "errorText"
  /\ analysis.results.years[1].phases[1].analyses =
       <<[expert |-> experts[1], content |-> "text"],
         [expert |-> experts[2], content |-> "errorText"]>>

====
